---------------------------- MODULE Spec2Model ----------------------------
(***************************************************************************)
(* A model of the signal-processing engines of the Audio-Effects plugins:  *)
(* the STFT analysis/modification/synthesis engine, the circular delay     *)
(* lines of Chorus, Vibrato, Ping-Pong Delay and Panning, the smoothed     *)
(* plugin parameter, the biquad coefficient formulas, the Wah-Wah envelope *)
(* follower, the Robotization-Whisperization modification, the phase       *)
(* vocoder of Pitch Shift, the filter banks of Phaser and Parametric EQ,   *)
(* and the gain computer of Compressor-Expander.                           *)
(*                                                                         *)
(* Sample values, window tables, filter coefficients and delay times are   *)
(* exact rationals <<numerator, denominator>> (denominator > 0, lowest     *)
(* terms): the model computes what the code's float arithmetic computes    *)
(* up to rounding.  Buffers keep the code's 0-based indices.               *)
(***************************************************************************)
EXTENDS Integers, Sequences, FiniteSets, TLC

VARIABLES stft,      \* the STFT object of STFT.h and its observed streams
          plug,      \* the processor around the STFT, or Pitch Shift and its ring
          chorus,    \* ChorusAudioProcessor delay state, or one pass of reads
          vibrato,   \* VibratoAudioProcessor delay state
          pingpong,  \* PingPongDelayAudioProcessor delay state
          panning,   \* PanningAudioProcessor delay lines
          line,      \* one PanningAudioProcessor::DelayLine and its calls
          param,     \* one PluginParameter, or a processor's smoothed parameters
          filt,      \* Filter objects: coefficients, or the filter banks
          wah        \* the envelope follower of Wah-Wah, or Compressor-Expander

vars == <<stft, plug, chorus, vibrato, pingpong, panning, line, param, filt, wah>>

-----------------------------------------------------------------------------
(* Exact rational arithmetic.                                              *)

Abs(n) == IF n < 0 THEN -n ELSE n

RECURSIVE Gcd(_, _)
Gcd(a, b) == IF b = 0 THEN a ELSE Gcd(b, a % b)

\* the rational n/d in lowest terms with a positive denominator (d # 0)
Rat(n, d) ==
    LET g == Gcd(Abs(n), Abs(d))
        s == IF d < 0 THEN -1 ELSE 1
    IN  <<(s * n) \div g, (s * d) \div g>>

RInt(n)    == <<n, 1>>
RZero      == <<0, 1>>
ROne       == <<1, 1>>
RAdd(a, b) == IF a[2] = b[2] /\ a[2] = 1 THEN <<a[1] + b[1], 1>>
              ELSE Rat(a[1] * b[2] + b[1] * a[2], a[2] * b[2])
RNeg(a)    == <<-a[1], a[2]>>
RSub(a, b) == RAdd(a, RNeg(b))
RMul(a, b) == IF a[2] = b[2] /\ a[2] = 1 THEN <<a[1] * b[1], 1>>
              ELSE Rat(a[1] * b[1], a[2] * b[2])
RDiv(a, b) == Rat(a[1] * b[2], a[2] * b[1])
RLt(a, b)  == a[1] * b[2] < b[1] * a[2]
RLe(a, b)  == a[1] * b[2] <= b[1] * a[2]
RAbs(a)    == <<Abs(a[1]), a[2]>>
RMin(a, b) == IF RLt(b, a) THEN b ELSE a
\* floorf: the greatest integer <= a (TLA+'s \div rounds toward -infinity)
RFloor(a)  == a[1] \div a[2]
\* fmodf (a, n) for a >= 0 and an integer n > 0
RFmod(a, n) == RSub(a, RInt(n * (a[1] \div (a[2] * n))))

\* sum of f[lo..hi] for a function f of rationals
RECURSIVE RSum(_, _, _)
RSum(f, lo, hi) == IF hi < lo THEN RZero ELSE RAdd(f[hi], RSum(f, lo, hi - 1))

\* complex numbers <<re, im>> over the rationals
CZero      == <<RZero, RZero>>
CAdd(x, y) == <<RAdd(x[1], y[1]), RAdd(x[2], y[2])>>
CMul(x, y) == <<RSub(RMul(x[1], y[1]), RMul(x[2], y[2])),
                RAdd(RMul(x[1], y[2]), RMul(x[2], y[1]))>>
CConj(x)   == <<x[1], RNeg(x[2])>>
CScale(x, r) == <<RMul(x[1], r), RMul(x[2], r)>>

RECURSIVE CSum(_, _, _)
CSum(f, lo, hi) == IF hi < lo THEN CZero ELSE CAdd(f[hi], CSum(f, lo, hi - 1))


-----------------------------------------------------------------------------
(* Model bounds.                                                           *)

\* input samples fed to the engines
SampleValues == {0, 1}
\* longest block handed to one processBlock call
MaxBlock == 2
\* samples (counted over all channels) processed by the STFT between two
\* reconfigurations
MaxSamples == 6
\* FFT sizes and overlap factors tried (powers of two, as the callbacks
\* derive them; cos and the DFT twiddles are rational for these sizes)
FftSizes == {2, 4}
Overlaps == {0, 1, 2, 4}
WindowTypes == 0 .. 3
ChannelCounts == {1, 2}

-----------------------------------------------------------------------------
(* STFT (Template Frequency Domain/Source/STFT.h).                         *)

windowTypeRectangular == 0
windowTypeBartlett == 1
windowTypeHann == 2
windowTypeHamming == 3

\* cosf (2 pi i / m) at the angles where it is rational
CosTwoPi(i, m) ==
    LET f == Rat(i % m, m)
    IN  CASE f = <<0, 1>> -> ROne
          [] f = <<1, 2>> -> RInt(-1)
          [] f \in {<<1, 4>>, <<3, 4>>} -> RZero
          [] f \in {<<1, 3>>, <<2, 3>>} -> Rat(-1, 2)
          [] f \in {<<1, 6>>, <<5, 6>>} -> Rat(1, 2)

\* one entry of the window table, as updateWindow's switch computes it
WindowValue(type, sample, fftSize) ==
    CASE type = windowTypeRectangular -> ROne
      [] type = windowTypeBartlett ->
            RSub(ROne, RAbs(RSub(Rat(2 * sample, fftSize - 1), ROne)))
      [] type = windowTypeHann ->
            RSub(Rat(1, 2), RMul(Rat(1, 2), CosTwoPi(sample, fftSize - 1)))
      [] type = windowTypeHamming ->
            RSub(Rat(54, 100), RMul(Rat(46, 100), CosTwoPi(sample, fftSize - 1)))
      [] OTHER -> RZero

ZeroRing(channels, length) ==
    [ch \in 0 .. channels - 1 |-> [i \in 0 .. length - 1 |-> RZero]]

NoLogs(channels) == [ch \in 0 .. channels - 1 |-> <<>>]

\* STFT::setup
StftSetup(s, numInputChannels) ==
    [s EXCEPT !.numChannels = IF numInputChannels > 0 THEN numInputChannels ELSE 1]

\* STFT::updateFftSize: reallocates and clears the rings, resets the cursors
StftUpdateFftSize(s, newFftSize) ==
    [s EXCEPT !.fftSize = newFftSize,
              !.inputBufferLength = newFftSize,
              !.inputBuffer = ZeroRing(s.numChannels, newFftSize),
              !.outputBufferLength = newFftSize,
              !.outputBuffer = ZeroRing(s.numChannels, newFftSize),
              !.fftWindow = [i \in 0 .. newFftSize - 1 |-> RZero],
              !.timeDomainBuffer = [i \in 0 .. newFftSize - 1 |-> CZero],
              !.frequencyDomainBuffer = [i \in 0 .. newFftSize - 1 |-> CZero],
              !.inputBufferWritePosition = 0,
              !.outputBufferWritePosition = 0,
              !.outputBufferReadPosition = 0,
              !.samplesSinceLastFFT = 0]

\* updateHopSize leaving the output write cursor on the read cursor
StftUpdateHopSizeNoLead(s, newOverlap) ==
    IF newOverlap # 0
    THEN [s EXCEPT !.overlap = newOverlap,
                   !.hopSize = s.fftSize \div newOverlap]
    ELSE [s EXCEPT !.overlap = newOverlap]

\* updateHopSize clearing the hop size when the overlap is 0
StftUpdateHopSizeClearing(s, newOverlap) ==
    IF newOverlap # 0
    THEN [s EXCEPT !.overlap = newOverlap,
                   !.hopSize = s.fftSize \div newOverlap,
                   !.outputBufferWritePosition =
                        (s.fftSize \div newOverlap) % s.outputBufferLength]
    ELSE [s EXCEPT !.overlap = newOverlap, !.hopSize = 0]

\* STFT::updateHopSize
StftUpdateHopSize(s, newOverlap) ==
    IF newOverlap # 0
    THEN [s EXCEPT !.overlap = newOverlap,
                   !.hopSize = s.fftSize \div newOverlap,
                   !.outputBufferWritePosition =
                        (s.fftSize \div newOverlap) % s.outputBufferLength]
    ELSE [s EXCEPT !.overlap = newOverlap]

\* updateWindow filling the table only, the scale factor left as it was
StftUpdateWindowKeepScale(s, newWindowType) ==
    [s EXCEPT !.fftWindow = [i \in 0 .. s.fftSize - 1 |->
                                IF newWindowType \in WindowTypes
                                THEN WindowValue(newWindowType, i, s.fftSize)
                                ELSE s.fftWindow[i]]]

\* STFT::updateWindow: the table, then windowScaleFactor
StftUpdateWindow(s, newWindowType) ==
    LET table == [i \in 0 .. s.fftSize - 1 |->
                    IF newWindowType \in WindowTypes
                    THEN WindowValue(newWindowType, i, s.fftSize)
                    ELSE s.fftWindow[i]]
        windowSum == RSum(table, 0, s.fftSize - 1)
    IN  [s EXCEPT !.fftWindow = table,
                  !.windowScaleFactor =
                      IF s.overlap # 0 /\ windowSum # RZero
                      THEN RMul(RDiv(RDiv(ROne, RInt(s.overlap)), windowSum),
                                RInt(s.fftSize))
                      ELSE RZero]

\* STFT::updateParameters; the observed streams start again
StftUpdateParameters(s, newFftSize, newOverlap, newWindowType) ==
    LET t == StftUpdateWindow(
                 StftUpdateHopSize(StftUpdateFftSize(s, newFftSize), newOverlap),
                 newWindowType)
    IN  [t EXCEPT !.inLog = NoLogs(t.numChannels),
                  !.outLog = NoLogs(t.numChannels),
                  !.frameLog = NoLogs(t.numChannels)]

\* sinf (2 pi i / m) = cosf (2 pi (i/m - 1/4))
SinTwoPi(i, m) == CosTwoPi(4 * i + 3 * m, 4 * m)

\* dsp::FFT::perform: the discrete Fourier transform of `size` points; the
\* inverse transform conjugates the twiddles and scales by 1 / size
FftPerform(input, size, inverse) ==
    LET tw(j) == <<CosTwoPi(j, size),
                   IF inverse THEN SinTwoPi(j, size) ELSE RNeg(SinTwoPi(j, size))>>
        bin(k) == CSum([n \in 0 .. size - 1 |-> CMul(input[n], tw(k * n))],
                       0, size - 1)
    IN  [k \in 0 .. size - 1 |->
            IF inverse THEN CScale(bin(k), Rat(1, size)) ELSE bin(k)]

\* STFT::analysis: the last fftSize input samples, oldest first, windowed
StftAnalysis(s, channel) ==
    [s EXCEPT !.timeDomainBuffer =
        [index \in 0 .. s.fftSize - 1 |->
            <<RMul(s.fftWindow[index],
                   s.inputBuffer[channel][(s.currentInputBufferWritePosition + index)
                                          % s.inputBufferLength]),
              RZero>>]]

\* STFT::modification: forward transform, every bin 0 .. fftSize/2 rebuilt
\* from its magnitude and phase and mirrored onto bin fftSize - index,
\* inverse transform
StftModification(s) ==
    LET spectrum == FftPerform(s.timeDomainBuffer, s.fftSize, FALSE)
        rebuilt == [index \in 0 .. s.fftSize - 1 |->
                       IF index <= s.fftSize \div 2
                       THEN spectrum[index]
                       ELSE CConj(spectrum[s.fftSize - index])]
    IN  [s EXCEPT !.frequencyDomainBuffer = rebuilt,
                  !.timeDomainBuffer = FftPerform(rebuilt, s.fftSize, TRUE)]

\* the overlap-add loop of STFT::synthesis from frame index `index` on
RECURSIVE StftOverlapAdd(_, _, _, _)
StftOverlapAdd(s, ring, outputBufferIndex, index) ==
    IF index >= s.fftSize THEN ring
    ELSE StftOverlapAdd(
            s,
            [ring EXCEPT ![outputBufferIndex] =
                RAdd(@, RMul(s.timeDomainBuffer[index][1], s.windowScaleFactor))],
            IF outputBufferIndex + 1 >= s.outputBufferLength
               THEN 0 ELSE outputBufferIndex + 1,
            index + 1)

\* where STFT::synthesis leaves the output write cursor
StftAdvanceWrite(s) ==
    IF s.currentOutputBufferWritePosition + s.hopSize >= s.outputBufferLength
    THEN 0 ELSE s.currentOutputBufferWritePosition + s.hopSize

\* STFT::synthesis
StftSynthesis(s, channel) ==
    [s EXCEPT !.outputBuffer[channel] =
                  StftOverlapAdd(s, @, s.currentOutputBufferWritePosition, 0),
              !.currentOutputBufferWritePosition = StftAdvanceWrite(s)]

\* the hop test off by one
StftFrameDueLate(s) == s.currentSamplesSinceLastFFT + 1 > s.hopSize

\* whether this sample completes a hop (STFT.h line 88)
StftFrameDue(s) == s.currentSamplesSinceLastFFT + 1 >= s.hopSize

\* one pass of the sample loop of STFT::processBlock
StftSample(s, channel, inputSample) ==
    LET emitted == s.outputBuffer[channel][s.currentOutputBufferReadPosition]
        fire == StftFrameDue(s)
        a == [s EXCEPT
                !.inputBuffer[channel][s.currentInputBufferWritePosition] =
                    RInt(inputSample),
                !.currentInputBufferWritePosition =
                    IF @ + 1 >= s.inputBufferLength THEN 0 ELSE @ + 1,
                !.outputBuffer[channel][s.currentOutputBufferReadPosition] = RZero,
                !.currentOutputBufferReadPosition =
                    IF @ + 1 >= s.outputBufferLength THEN 0 ELSE @ + 1,
                !.currentSamplesSinceLastFFT = IF fire THEN 0 ELSE @ + 1,
                !.frameLog[channel] =
                    IF fire THEN Append(@, Len(s.inLog[channel])) ELSE @,
                !.inLog[channel] = Append(@, inputSample),
                !.outLog[channel] = Append(@, emitted)]
    IN  IF fire THEN StftSynthesis(StftModification(StftAnalysis(a, channel)), channel)
        ELSE a

RECURSIVE StftSamples(_, _, _, _)
StftSamples(s, channel, data, sample) ==
    IF sample > Len(data) THEN s
    ELSE StftSamples(StftSample(s, channel, data[sample]), channel, data, sample + 1)

\* a channel loop in which a channel goes on from the cursors the channel
\* before it ended with
RECURSIVE StftChannelsCarried(_, _, _)
StftChannelsCarried(s, block, channel) ==
    IF channel >= s.numChannels THEN s
    ELSE StftChannelsCarried(
            StftSamples(IF channel > 0 THEN s
                        ELSE [s EXCEPT
                            !.currentInputBufferWritePosition = s.inputBufferWritePosition,
                            !.currentOutputBufferWritePosition = s.outputBufferWritePosition,
                            !.currentOutputBufferReadPosition = s.outputBufferReadPosition,
                            !.currentSamplesSinceLastFFT = s.samplesSinceLastFFT],
                        channel, block[channel], 1),
            block, channel + 1)

\* the channel loop of STFT::processBlock: every channel restarts from the
\* saved cursors
RECURSIVE StftChannels(_, _, _)
StftChannels(s, block, channel) ==
    IF channel >= s.numChannels THEN s
    ELSE StftChannels(
            StftSamples([s EXCEPT
                            !.currentInputBufferWritePosition = s.inputBufferWritePosition,
                            !.currentOutputBufferWritePosition = s.outputBufferWritePosition,
                            !.currentOutputBufferReadPosition = s.outputBufferReadPosition,
                            !.currentSamplesSinceLastFFT = s.samplesSinceLastFFT],
                        channel, block[channel], 1),
            block, channel + 1)

\* the end of STFT::processBlock: the cursors of the last channel are saved
StftSavePositions(t) ==
    [t EXCEPT !.inputBufferWritePosition = t.currentInputBufferWritePosition,
              !.outputBufferWritePosition = t.currentOutputBufferWritePosition,
              !.outputBufferReadPosition = t.currentOutputBufferReadPosition,
              !.samplesSinceLastFFT = t.currentSamplesSinceLastFFT]

\* STFT::processBlock
StftProcessBlock(s, block) == StftSavePositions(StftChannels(s, block, 0))

\* the STFT as the plugin's constructor leaves it: one channel and the
\* default choices (the larger FFT size, overlap 2, Hann)
StftConstructed ==
    StftUpdateParameters(
        [numChannels |-> 1, fftSize |-> 0, overlap |-> 0, hopSize |-> 0,
         inputBufferLength |-> 0, outputBufferLength |-> 0,
         inputBuffer |-> <<>>, outputBuffer |-> <<>>, fftWindow |-> <<>>,
         timeDomainBuffer |-> <<>>, frequencyDomainBuffer |-> <<>>,
         windowScaleFactor |-> RZero,
         inputBufferWritePosition |-> 0, outputBufferWritePosition |-> 0,
         outputBufferReadPosition |-> 0, samplesSinceLastFFT |-> 0,
         currentInputBufferWritePosition |-> 0, currentOutputBufferWritePosition |-> 0,
         currentOutputBufferReadPosition |-> 0, currentSamplesSinceLastFFT |-> 0,
         inLog |-> <<>>, outLog |-> <<>>, frameLog |-> <<>>],
        4, 2, windowTypeHann)

\* blocks of n samples for `channels` channels
Blocks(channels, n) == [0 .. channels - 1 -> [1 .. n -> SampleValues]]

\* configurations in which a hop holds at least one sample
ValidConfig(fftSize, overlapFactor) == overlapFactor <= fftSize


-----------------------------------------------------------------------------
(* The STFT inside RobotizationWhisperizationAudioProcessor: prepareToPlay, *)
(* the three parameter callbacks and processBlock, each taken as a whole.  *)

Threads == {"audio", "message", "host"}

\* the processor as its constructor leaves it: the three choices at their
\* defaults, the lock free, no thread inside a handler
PlugConstructed ==
    [paramFftSize |-> 4, paramHopSize |-> 2, paramWindowType |-> windowTypeHann,
     lock |-> "free",
     pc |-> [t \in Threads |-> "idle"],
     request |-> <<>>, channels |-> 1]

\* stft.updateParameters with the three current target values
StftFromTargets(s, p) ==
    StftUpdateParameters(s, p.paramFftSize, p.paramHopSize, p.paramWindowType)

\* the other effects are not touched by this processor
StftOthers == UNCHANGED <<chorus, vibrato, pingpong, panning, line, param, filt, wah>>

\* prepareToPlay (PluginProcessor.cpp 84-98)
PrepareToPlay ==
    /\ StftOthers
    /\ \E channels \in ChannelCounts :
          /\ stft' = StftFromTargets(StftSetup(stft, channels), plug)
          /\ UNCHANGED plug

\* the FFT-size callback (PluginProcessor.cpp 46-54)
FftSizeChanged ==
    /\ StftOthers
    /\ \E f \in FftSizes :
          /\ ValidConfig(f, plug.paramHopSize)
          /\ plug' = [plug EXCEPT !.paramFftSize = f]
          /\ stft' = StftFromTargets(stft, plug')

\* the hop-size callback (PluginProcessor.cpp 56-64)
HopSizeChanged ==
    /\ StftOthers
    /\ \E o \in Overlaps :
          /\ ValidConfig(plug.paramFftSize, o)
          /\ plug' = [plug EXCEPT !.paramHopSize = o]
          /\ stft' = StftFromTargets(stft, plug')

\* the window-type callback (PluginProcessor.cpp 66-73)
WindowTypeChanged ==
    /\ StftOthers
    /\ \E w \in WindowTypes :
          /\ plug' = [plug EXCEPT !.paramWindowType = w]
          /\ stft' = StftFromTargets(stft, plug')

\* processBlock (PluginProcessor.cpp 104-122) on a block of n samples
ProcessBlock ==
    /\ StftOthers
    /\ \E n \in 0 .. MaxBlock :
          /\ stft.numChannels * (Len(stft.inLog[0]) + n) <= MaxSamples
          /\ \E block \in Blocks(stft.numChannels, n) :
                 stft' = StftProcessBlock(stft, block)
          /\ UNCHANGED plug

\* the other effects are not instantiated
OthersIdle == chorus = 0 /\ vibrato = 0 /\ pingpong = 0
              /\ panning = 0 /\ line = 0 /\ param = 0 /\ filt = 0 /\ wah = 0

StftInit == stft = StftConstructed /\ plug = PlugConstructed /\ OthersIdle

StftNext ==
    \/ PrepareToPlay
    \/ FftSizeChanged
    \/ HopSizeChanged
    \/ WindowTypeChanged
    \/ ProcessBlock

SpecSTFT ==
    /\ StftInit
    /\ [][StftNext]_vars

-----------------------------------------------------------------------------
(* Claims about the STFT.                                                  *)

StftChannelSet == 0 .. stft.numChannels - 1

\* the scaled windows of the overlapping frames sum to 1 at every sample
\* of a hop (the overlap-add reconstruction condition)
Cola ==
    /\ stft.overlap # 0
    /\ stft.hopSize * stft.overlap = stft.fftSize
    /\ \A i \in 0 .. stft.hopSize - 1 :
          RSum([k \in 0 .. stft.overlap - 1 |->
                   RMul(stft.fftWindow[i + k * stft.hopSize], stft.windowScaleFactor)],
               0, stft.overlap - 1) = ROne

\* the output stream is the input stream delayed by `delay` samples
DelayedBy(delay) ==
    \A ch \in StftChannelSet :
        \A t \in 1 .. Len(stft.outLog[ch]) :
            stft.outLog[ch][t] =
                IF t > delay THEN RInt(stft.inLog[ch][t - delay]) ELSE RZero

\* C1 as stated: with pass-through modification and windows that overlap-add
\* to 1, the output is the input delayed by exactly fftSize - hopSize samples.
C1_DelayFftMinusHop == Cola => DelayedBy(stft.fftSize - stft.hopSize)

\* C1 amended: with pass-through modification and windows that overlap-add
\* to 1, the output of STFT::processBlock is the input delayed by exactly
\* fftSize samples (zeros before that), for every block split.
C1_DelayFftSize == Cola => DelayedBy(stft.fftSize)

\* a non-zero input sample has come out again, fftSize samples later, of a
\* Hann-windowed engine with two overlapping frames
C1_Witness ==
    /\ Cola /\ stft.fftSize = 4 /\ stft.hopSize = 2
    /\ stft.fftWindow[1] = Rat(3, 4)
    /\ Len(stft.outLog[0]) > 4
    /\ stft.inLog[0][1] = 1 /\ stft.outLog[0][5] = ROne

\* C2: per channel, the k-th frame since the last reconfiguration fires
\* while input sample k * hopSize - 1 is processed, and no other frame fires.
C2_FrameCadence ==
    \A ch \in StftChannelSet :
        /\ Len(stft.frameLog[ch]) = Len(stft.inLog[ch]) \div stft.hopSize
        /\ \A k \in 1 .. Len(stft.frameLog[ch]) :
              stft.frameLog[ch][k] = k * stft.hopSize - 1

\* two frames have fired on a channel and the stream has stopped in the
\* middle of a hop: an odd number of samples, so some block held one sample
C2_Witness ==
    /\ stft.hopSize = 2
    /\ \E ch \in StftChannelSet :
          /\ Len(stft.frameLog[ch]) >= 2
          /\ Len(stft.inLog[ch]) % stft.hopSize # 0

-----------------------------------------------------------------------------
(* The same processor with its three callers apart: the audio thread in    *)
(* processBlock, the message thread in a parameter callback, the host in   *)
(* prepareToPlay.  `lock` is the processor's CriticalSection; a ScopedLock *)
(* blocks until the lock is free and releases it when the handler returns. *)
(* When two handlers overlap, their effects on the STFT are applied in the *)
(* order in which they return.                                             *)

\* samples the audio thread feeds between two reconfigurations in SpecLock
LockMaxSamples == 1

\* a ScopedLock taking the lock although it is held
LockAvailableAlways(p) == TRUE

\* CriticalSection::enter can proceed (const ScopedLock sl (lock))
LockAvailable(p) == p.lock = "free"

\* the host calls processBlock
AudioCall ==
    /\ StftOthers
    /\ plug.pc["audio"] = "idle"
    /\ plug' = [plug EXCEPT !.pc["audio"] = "waiting"]
    /\ UNCHANGED stft

\* processBlock line 106: const ScopedLock sl (lock)
AudioAcquire ==
    /\ StftOthers
    /\ plug.pc["audio"] = "waiting"
    /\ LockAvailable(plug)
    /\ plug' = [plug EXCEPT !.pc["audio"] = "processing", !.lock = "audio"]
    /\ UNCHANGED stft

\* processBlock lines 108-122: stft.processBlock on the block handed in,
\* then the lock is released
AudioReturn ==
    /\ StftOthers
    /\ plug.pc["audio"] = "processing"
    /\ \E n \in 0 .. 1 :
          /\ Len(stft.inLog[0]) + n <= LockMaxSamples
          /\ \E block \in Blocks(stft.numChannels, n) :
                stft' = StftProcessBlock(stft, block)
    /\ plug' = [plug EXCEPT !.pc["audio"] = "idle", !.lock = "free"]

\* a parameter changes: the listener calls the parameter's callback
CallbackCall ==
    /\ StftOthers
    /\ plug.pc["message"] = "idle"
    /\ \E kind \in {"fftSize", "hopSize", "windowType"} :
          \E value \in (CASE kind = "fftSize" -> FftSizes
                          [] kind = "hopSize" -> Overlaps
                          [] OTHER -> WindowTypes) :
              plug' = [plug EXCEPT !.pc["message"] = "waiting",
                                   !.request = <<kind, value>>]
    /\ UNCHANGED stft

\* the callback's first statement: const ScopedLock sl (lock)
CallbackAcquire ==
    /\ StftOthers
    /\ plug.pc["message"] = "waiting"
    /\ LockAvailable(plug)
    /\ plug' = [plug EXCEPT !.pc["message"] = "reconfiguring", !.lock = "message"]
    /\ UNCHANGED stft

\* the parameter targets after the callback has stored its value
TargetsAfter(p, request) ==
    CASE request[1] = "fftSize" -> [p EXCEPT !.paramFftSize = request[2]]
      [] request[1] = "hopSize" -> [p EXCEPT !.paramHopSize = request[2]]
      [] OTHER -> [p EXCEPT !.paramWindowType = request[2]]

\* the callback's body: setCurrentAndTargetValue, stft.updateParameters;
\* then the lock is released
CallbackReturn ==
    /\ StftOthers
    /\ plug.pc["message"] = "reconfiguring"
    /\ LET q == TargetsAfter(plug, plug.request)
       IN  /\ ValidConfig(q.paramFftSize, q.paramHopSize)
           /\ stft' = StftFromTargets(stft, q)
           /\ plug' = [q EXCEPT !.pc["message"] = "idle", !.lock = "free",
                                !.request = <<>>]

\* a callback whose value the scaled-down sizes cannot hold is dropped
CallbackDrop ==
    /\ StftOthers
    /\ plug.pc["message"] = "reconfiguring"
    /\ LET q == TargetsAfter(plug, plug.request)
       IN  ~ValidConfig(q.paramFftSize, q.paramHopSize)
    /\ plug' = [plug EXCEPT !.pc["message"] = "idle", !.lock = "free",
                            !.request = <<>>]
    /\ UNCHANGED stft

\* the host calls prepareToPlay: lines 86-90 take no lock
PrepareCall ==
    /\ StftOthers
    /\ plug.pc["host"] = "idle"
    /\ \E channels \in ChannelCounts :
          plug' = [plug EXCEPT !.pc["host"] = "preparing", !.channels = channels]
    /\ UNCHANGED stft

\* prepareToPlay lines 94-97: stft.setup, stft.updateParameters
PrepareReturn ==
    /\ StftOthers
    /\ plug.pc["host"] = "preparing"
    /\ stft' = StftFromTargets(StftSetup(stft, plug.channels), plug)
    /\ plug' = [plug EXCEPT !.pc["host"] = "idle"]

LockNext ==
    \/ AudioCall
    \/ AudioAcquire
    \/ AudioReturn
    \/ CallbackCall
    \/ CallbackAcquire
    \/ CallbackReturn
    \/ CallbackDrop
    \/ PrepareCall
    \/ PrepareReturn

SpecLock ==
    /\ StftInit
    /\ [][LockNext]_vars

\* a reconfiguration of the STFT is running
CallbackReconfiguring == plug.pc["message"] = "reconfiguring"
PrepareReconfiguring == plug.pc["host"] = "preparing"
Processing == plug.pc["audio"] = "processing"

\* C3 as stated: no reconfiguration runs while processBlock is in progress,
\* and every reconfiguring path (the three callbacks and prepareToPlay) holds
\* the lock that processBlock holds.
C3_EveryReconfigurationLocked ==
    /\ ~(Processing /\ (CallbackReconfiguring \/ PrepareReconfiguring))
    /\ CallbackReconfiguring => plug.lock = "message"
    /\ PrepareReconfiguring => plug.lock = "host"

\* C3 amended: the FFT-size, hop-size and window-type callbacks hold the lock
\* that processBlock holds, so none of them reconfigures the STFT while a
\* processBlock call is in progress (prepareToPlay takes no lock).
C3_CallbacksLocked ==
    /\ ~(Processing /\ CallbackReconfiguring)
    /\ CallbackReconfiguring => plug.lock = "message"
    /\ Processing => plug.lock = "audio"

\* a callback is reconfiguring under the lock while processBlock waits for it
C3_Witness ==
    /\ CallbackReconfiguring /\ plug.lock = "message"
    /\ plug.pc["audio"] = "waiting"
-----------------------------------------------------------------------------
(* Circular delay lines: Chorus, Vibrato, Ping-Pong Delay, Panning.        *)
(* Each plugin is a program of its own: a behaviour runs one of them, the  *)
(* records of the other three stay 0.  Parameters hold the value their     *)
(* callback produced (seconds for the times given in ms).  A record's      *)
(* `log` lists, per sample step since prepareToPlay, the write position    *)
(* before the step, the buffer slots assigned and the reads performed.     *)

\* sample steps processed between two prepareToPlay calls (counted over
\* the channels in Chorus and Vibrato)
DelayMaxSteps == 4
\* parameter changes between two prepareToPlay calls
MaxChanges == 1

waveformSine == "waveformSine"
waveformTriangle == "waveformTriangle"
waveformSawtooth == "waveformSawtooth"
waveformInverseSawtooth == "waveformInverseSawtooth"
interpolationNearestNeighbour == "interpolationNearestNeighbour"
interpolationLinear == "interpolationLinear"
interpolationCubic == "interpolationCubic"
Interpolations == {interpolationNearestNeighbour, interpolationLinear,
                   interpolationCubic}

\* delayBuffer.clear(): one channel of n zeroed slots
ClearedBuffer(n) == [i \in 0 .. n - 1 |-> RZero]

\* lfo (phase, waveform), the same function in Chorus and Vibrato
Lfo(phase, waveform) ==
    CASE waveform = waveformSine ->
            RAdd(Rat(1, 2), RMul(Rat(1, 2), SinTwoPi(phase[1], phase[2])))
      [] waveform = waveformTriangle ->
            IF RLt(phase, Rat(1, 4))
            THEN RAdd(Rat(1, 2), RMul(RInt(2), phase))
            ELSE IF RLt(phase, Rat(3, 4))
            THEN RSub(ROne, RMul(RInt(2), RSub(phase, Rat(1, 4))))
            ELSE RMul(RInt(2), RSub(phase, Rat(3, 4)))
      [] waveform = waveformSawtooth ->
            IF RLt(phase, Rat(1, 2)) THEN RAdd(Rat(1, 2), phase)
            ELSE RSub(phase, Rat(1, 2))
      [] waveform = waveformInverseSawtooth ->
            IF RLt(phase, Rat(1, 2)) THEN RSub(Rat(1, 2), phase)
            ELSE RSub(Rat(3, 2), phase)
      [] OTHER -> RZero

\* an interpolation switch whose linear case runs from the later sample to
\* the earlier one
InterpolateFromNext(delayData, delayBufferSamples, readPosition, interpolation) ==
    LET localReadPosition == RFloor(readPosition)
        fraction == RSub(readPosition, RInt(localReadPosition))
        delayed0 == delayData[localReadPosition + 0]
        delayed1 == delayData[(localReadPosition + 1) % delayBufferSamples]
    IN  IF interpolation = interpolationNearestNeighbour
        THEN delayData[localReadPosition % delayBufferSamples]
        ELSE RAdd(delayed1, RMul(fraction, RSub(delayed0, delayed1)))

\* the interpolation switch of Chorus and Vibrato on one channel's buffer
Interpolate(delayData, delayBufferSamples, readPosition, interpolation) ==
    LET localReadPosition == RFloor(readPosition)
        fraction == RSub(readPosition, RInt(localReadPosition))
    IN  CASE interpolation = interpolationNearestNeighbour ->
                delayData[localReadPosition % delayBufferSamples]
          [] interpolation = interpolationLinear ->
                LET delayed0 == delayData[localReadPosition + 0]
                    delayed1 == delayData[(localReadPosition + 1) % delayBufferSamples]
                IN  RAdd(delayed0, RMul(fraction, RSub(delayed1, delayed0)))
          [] interpolation = interpolationCubic ->
                LET fractionSqrt == RMul(fraction, fraction)
                    fractionCube == RMul(fractionSqrt, fraction)
                    sample0 == delayData[(localReadPosition - 1 + delayBufferSamples)
                                             % delayBufferSamples]
                    sample1 == delayData[localReadPosition + 0]
                    sample2 == delayData[(localReadPosition + 1) % delayBufferSamples]
                    sample3 == delayData[(localReadPosition + 2) % delayBufferSamples]
                    a0 == RAdd(RAdd(RMul(Rat(-1, 2), sample0), RMul(Rat(3, 2), sample1)),
                               RAdd(RMul(Rat(-3, 2), sample2), RMul(Rat(1, 2), sample3)))
                    a1 == RAdd(RAdd(sample0, RMul(Rat(-5, 2), sample1)),
                               RAdd(RMul(RInt(2), sample2), RMul(Rat(-1, 2), sample3)))
                    a2 == RAdd(RMul(Rat(-1, 2), sample0), RMul(Rat(1, 2), sample2))
                    a3 == sample1
                IN  RAdd(RAdd(RMul(a0, fractionCube), RMul(a1, fractionSqrt)),
                         RAdd(RMul(a2, fraction), a3))
          [] OTHER -> RZero

\* if (++localWritePosition >= delayBufferSamples) localWritePosition -= ...
AdvanceWritePosition(localWritePosition, delayBufferSamples) ==
    IF localWritePosition + 1 >= delayBufferSamples
    THEN localWritePosition + 1 - delayBufferSamples
    ELSE localWritePosition + 1

\* phase += currentFrequency * inverseSampleRate; if (phase >= 1) phase -= 1
AdvancePhase(phase, currentFrequency, sampleRate) ==
    LET next == RAdd(phase, RMul(currentFrequency, RDiv(ROne, sampleRate)))
    IN  IF RLe(ROne, next) THEN RSub(next, ROne) ELSE next

\* delayBufferSamples = (int)(maxDelayTime * sampleRate) + 1, at least 1
BufferSamplesFor(maxDelayTime, sampleRate) ==
    LET n == RFloor(RMul(maxDelayTime, sampleRate)) + 1
    IN  IF n < 1 THEN 1 ELSE n

NoLog(channels) == [ch \in 0 .. channels - 1 |-> <<>>]

-----------------------------------------------------------------------------
(* Chorus.                                                                 *)

\* the sample rate prepareToPlay is called with: the buffer gets 3 slots
ChorusSampleRates == {RInt(20)}
\* paramDelay and paramWidth (10 .. 50 ms), in seconds
ChorusDelays == {Rat(1, 40), Rat(1, 20)}
ChorusWidths == {Rat(1, 20)}
\* paramFrequency (0.05 .. 2 Hz)
ChorusFrequencies == {RInt(2)}
\* the sine LFO is irrational at the phases these frequencies visit
ChorusWaveforms == {waveformTriangle, waveformSawtooth, waveformInverseSawtooth}
\* paramNumVoices: the voices that keep the LFO argument below 1.25
ChorusVoices == {2, 3}

\* paramDelay.maxValue + paramWidth.maxValue, in seconds
ChorusMaxDelayTime == RAdd(Rat(50, 1000), Rat(50, 1000))

ChorusConstructed(delay, width, frequency, waveform, interpolation, voices) ==
    [sampleRate |-> RZero, delayBufferSamples |-> 0, numChannels |-> 0,
     delayBuffer |-> <<>>, delayWritePosition |-> 0, lfoPhase |-> RZero,
     paramDelay |-> delay, paramWidth |-> width, paramFrequency |-> frequency,
     paramWaveform |-> waveform, paramInterpolation |-> interpolation,
     paramNumVoices |-> voices,
     live |-> TRUE, prepared |-> FALSE, changes |-> 0, log |-> <<>>]

\* ChorusAudioProcessor::prepareToPlay
ChorusPrepare(c, sampleRate, channels) ==
    LET n == BufferSamplesFor(ChorusMaxDelayTime, sampleRate)
    IN  [c EXCEPT !.sampleRate = sampleRate,
                  !.delayBufferSamples = n,
                  !.numChannels = channels,
                  !.delayBuffer = [ch \in 0 .. channels - 1 |-> ClearedBuffer(n)],
                  !.delayWritePosition = 0,
                  !.lfoPhase = RZero,
                  !.prepared = TRUE, !.changes = 0, !.log = NoLog(channels)]

\* phaseOffset before voice number `voice` (0-based) of the voice loop
ChorusPhaseOffset(numVoices, voice) ==
    IF numVoices = 3 THEN RMul(RInt(voice), Rat(1, 4))
    ELSE IF numVoices > 3 THEN RMul(RInt(voice), Rat(1, numVoices - 1))
    ELSE RZero

\* one voice's read: localDelayTime, readPosition and the interpolated value
ChorusRead(c, delayData, localWritePosition, phase, phaseOffset) ==
    LET localDelayTime ==
            RMul(RAdd(c.paramDelay,
                      RMul(c.paramWidth,
                           Lfo(RAdd(phase, phaseOffset), c.paramWaveform))),
                 c.sampleRate)
        readPosition ==
            RFmod(RAdd(RSub(RInt(localWritePosition), localDelayTime),
                       RInt(c.delayBufferSamples)),
                  c.delayBufferSamples)
    IN  [delayTime |-> localDelayTime, readPosition |-> readPosition,
         interpolation |-> c.paramInterpolation,
         value |-> Interpolate(delayData, c.delayBufferSamples, readPosition,
                               c.paramInterpolation)]

\* a sample step that stores the input before the voices read
ChorusSampleWriteFirst(c, delayData, localWritePosition, phase, in) ==
    LET written == [delayData EXCEPT ![localWritePosition] = in]
    IN  [delayData |-> written,
         localWritePosition |->
             AdvanceWritePosition(localWritePosition, c.delayBufferSamples),
         phase |-> AdvancePhase(phase, c.paramFrequency, c.sampleRate),
         entry |-> [in |-> in, wp |-> localWritePosition,
                    writes |-> {localWritePosition},
                    reads |-> [voice \in 1 .. c.paramNumVoices - 1 |->
                                 ChorusRead(c, written, localWritePosition, phase,
                                            ChorusPhaseOffset(c.paramNumVoices,
                                                              voice - 1))]]]

\* one pass of the sample loop: the voices read, then the input is stored
ChorusSample(c, delayData, localWritePosition, phase, in) ==
    LET reads == [voice \in 1 .. c.paramNumVoices - 1 |->
                    ChorusRead(c, delayData, localWritePosition, phase,
                               ChorusPhaseOffset(c.paramNumVoices, voice - 1))]
    IN  [delayData |-> [delayData EXCEPT ![localWritePosition] = in],
         localWritePosition |->
             AdvanceWritePosition(localWritePosition, c.delayBufferSamples),
         phase |-> AdvancePhase(phase, c.paramFrequency, c.sampleRate),
         entry |-> [in |-> in, wp |-> localWritePosition,
                    writes |-> {localWritePosition}, reads |-> reads]]

\* the sample loop on one channel
RECURSIVE ChorusSamples(_, _, _, _)
ChorusSamples(c, st, data, sample) ==
    IF sample > Len(data) THEN st
    ELSE LET r == ChorusSample(c, st.delayData, st.localWritePosition, st.phase,
                               RInt(data[sample]))
         IN  ChorusSamples(c, [delayData |-> r.delayData,
                               localWritePosition |-> r.localWritePosition,
                               phase |-> r.phase,
                               entries |-> Append(st.entries, r.entry)],
                           data, sample + 1)

\* the end of one pass of the channel loop: the channel's buffer holds what
\* the pass wrote, and localWritePosition and phase hold its end values
ChorusChannelDone(acc, channel, r) ==
    [delayBuffer |-> [acc.delayBuffer EXCEPT ![channel] = r.delayData],
     log |-> [acc.log EXCEPT ![channel] = @ \o r.entries],
     localWritePosition |-> r.localWritePosition,
     phase |-> r.phase]

\* the channel loop: every channel starts from the saved write position and
\* phase
RECURSIVE ChorusChannels(_, _, _, _)
ChorusChannels(c, acc, block, channel) ==
    IF channel >= c.numChannels THEN acc
    ELSE ChorusChannels(c,
             ChorusChannelDone(acc, channel,
                 ChorusSamples(c, [delayData |-> c.delayBuffer[channel],
                                  localWritePosition |-> c.delayWritePosition,
                                  phase |-> c.lfoPhase, entries |-> <<>>],
                              block[channel], 1)),
             block, channel + 1)

\* after the channel loop the last channel's write position and phase are saved
ChorusSave(c, res) ==
    [c EXCEPT !.delayBuffer = res.delayBuffer,
                  !.delayWritePosition = res.localWritePosition,
                  !.lfoPhase = res.phase,
                  !.log = res.log]

\* ChorusAudioProcessor::processBlock
ChorusProcessBlock(c, block) ==
    ChorusSave(c, ChorusChannels(c, [delayBuffer |-> c.delayBuffer, log |-> c.log,
                                   localWritePosition |-> c.delayWritePosition,
                                   phase |-> c.lfoPhase],
                               block, 0))

-----------------------------------------------------------------------------
(* Vibrato.                                                                *)

\* the sample rate prepareToPlay is called with: the buffer gets 3 slots
VibratoSampleRates == {RInt(40)}
\* paramWidth (1 .. 50 ms), in seconds
VibratoWidths == {Rat(1, 20)}
\* paramFrequency (0 .. 10 Hz): the phase stays on the quarters
VibratoFrequencies == {RZero, RInt(10)}
VibratoWaveforms == {waveformSine, waveformTriangle, waveformSawtooth,
                     waveformInverseSawtooth}

\* paramWidth.maxValue, in seconds
VibratoMaxDelayTime == Rat(50, 1000)

VibratoConstructed(width, frequency, waveform, interpolation) ==
    [sampleRate |-> RZero, delayBufferSamples |-> 0, numChannels |-> 0,
     delayBuffer |-> <<>>, delayWritePosition |-> 0, lfoPhase |-> RZero,
     paramWidth |-> width, paramFrequency |-> frequency,
     paramWaveform |-> waveform, paramInterpolation |-> interpolation,
     live |-> TRUE, prepared |-> FALSE, changes |-> 0, log |-> <<>>]

\* VibratoAudioProcessor::prepareToPlay
VibratoPrepare(v, sampleRate, channels) ==
    LET n == BufferSamplesFor(VibratoMaxDelayTime, sampleRate)
    IN  [v EXCEPT !.sampleRate = sampleRate,
                  !.delayBufferSamples = n,
                  !.numChannels = channels,
                  !.delayBuffer = [ch \in 0 .. channels - 1 |-> ClearedBuffer(n)],
                  !.delayWritePosition = 0,
                  !.lfoPhase = RZero,
                  !.prepared = TRUE, !.changes = 0, !.log = NoLog(channels)]

\* a read whose position is measured from the write position itself
VibratoReadFromCursor(v, delayData, localWritePosition, phase) ==
    LET localDelayTime ==
            RMul(RMul(v.paramWidth, Lfo(phase, v.paramWaveform)), v.sampleRate)
        readPosition ==
            RFmod(RAdd(RSub(RInt(localWritePosition), localDelayTime),
                       RInt(v.delayBufferSamples)),
                  v.delayBufferSamples)
    IN  [delayTime |-> localDelayTime, readPosition |-> readPosition,
         interpolation |-> v.paramInterpolation,
         value |-> Interpolate(delayData, v.delayBufferSamples, readPosition,
                               v.paramInterpolation)]

\* the read of one sample step: localDelayTime, readPosition, value
VibratoRead(v, delayData, localWritePosition, phase) ==
    LET localDelayTime ==
            RMul(RMul(v.paramWidth, Lfo(phase, v.paramWaveform)), v.sampleRate)
        readPosition ==
            RFmod(RSub(RAdd(RSub(RInt(localWritePosition), localDelayTime),
                            RInt(v.delayBufferSamples)),
                       ROne),
                  v.delayBufferSamples)
    IN  [delayTime |-> localDelayTime, readPosition |-> readPosition,
         interpolation |-> v.paramInterpolation,
         value |-> Interpolate(delayData, v.delayBufferSamples, readPosition,
                               v.paramInterpolation)]

\* a pass that stores the input plus half the value it read
VibratoSampleFeedback(v, delayData, localWritePosition, phase, in) ==
    [delayData |->
         [delayData EXCEPT ![localWritePosition] =
              RAdd(in, RMul(Rat(1, 2),
                            VibratoRead(v, delayData, localWritePosition,
                                        phase).value))],
     localWritePosition |->
         AdvanceWritePosition(localWritePosition, v.delayBufferSamples),
     phase |-> AdvancePhase(phase, v.paramFrequency, v.sampleRate),
     entry |-> [in |-> in, wp |-> localWritePosition,
                writes |-> {localWritePosition},
                reads |-> <<VibratoRead(v, delayData, localWritePosition, phase)>>]]

\* one pass of the sample loop: read, then store the input
VibratoSample(v, delayData, localWritePosition, phase, in) ==
    [delayData |-> [delayData EXCEPT ![localWritePosition] = in],
     localWritePosition |->
         AdvanceWritePosition(localWritePosition, v.delayBufferSamples),
     phase |-> AdvancePhase(phase, v.paramFrequency, v.sampleRate),
     entry |-> [in |-> in, wp |-> localWritePosition,
                writes |-> {localWritePosition},
                reads |-> <<VibratoRead(v, delayData, localWritePosition, phase)>>]]

\* the sample loop on one channel
RECURSIVE VibratoSamples(_, _, _, _)
VibratoSamples(v, st, data, sample) ==
    IF sample > Len(data) THEN st
    ELSE LET r == VibratoSample(v, st.delayData, st.localWritePosition, st.phase,
                                RInt(data[sample]))
         IN  VibratoSamples(v, [delayData |-> r.delayData,
                                localWritePosition |-> r.localWritePosition,
                                phase |-> r.phase,
                                entries |-> Append(st.entries, r.entry)],
                            data, sample + 1)

\* the end of one pass of the channel loop: the channel's buffer holds what
\* the pass wrote, and localWritePosition and phase hold its end values
VibratoChannelDone(acc, channel, r) ==
    [delayBuffer |-> [acc.delayBuffer EXCEPT ![channel] = r.delayData],
     log |-> [acc.log EXCEPT ![channel] = @ \o r.entries],
     localWritePosition |-> r.localWritePosition,
     phase |-> r.phase]

\* the channel loop: every channel starts from the saved write position and
\* phase
RECURSIVE VibratoChannels(_, _, _, _)
VibratoChannels(v, acc, block, channel) ==
    IF channel >= v.numChannels THEN acc
    ELSE VibratoChannels(v,
             VibratoChannelDone(acc, channel,
                 VibratoSamples(v, [delayData |-> v.delayBuffer[channel],
                                  localWritePosition |-> v.delayWritePosition,
                                  phase |-> v.lfoPhase, entries |-> <<>>],
                              block[channel], 1)),
             block, channel + 1)

\* after the channel loop the last channel's write position and phase are saved
VibratoSave(v, res) ==
    [v EXCEPT !.delayBuffer = res.delayBuffer,
                  !.delayWritePosition = res.localWritePosition,
                  !.lfoPhase = res.phase,
                  !.log = res.log]

\* VibratoAudioProcessor::processBlock
VibratoProcessBlock(v, block) ==
    VibratoSave(v, VibratoChannels(v, [delayBuffer |-> v.delayBuffer, log |-> v.log,
                                   localWritePosition |-> v.delayWritePosition,
                                   phase |-> v.lfoPhase],
                               block, 0))

-----------------------------------------------------------------------------
(* Ping-Pong Delay (always two channels).                                  *)

\* the sample rate prepareToPlay is called with: the buffer gets 3 slots
PingPongSampleRates == {Rat(1, 2)}
\* paramDelayTime (0 .. 5 s): 0, 0.5, 1, 2 and 2.5 samples
PingPongDelayTimes == {RZero, RInt(1), RInt(2), RInt(4), RInt(5)}
\* paramFeedback (0 .. 0.9)
PingPongFeedbacks == {Rat(1, 2)}
\* paramBalance (0 .. 1) and paramMix (0 .. 1)
PingPongBalances == {Rat(1, 4)}
PingPongMixes == {ROne}

\* paramDelayTime.maxValue, in seconds
PingPongMaxDelayTime == RInt(5)

PingPongConstructed(delayTime, feedback, balance, mix) ==
    [sampleRate |-> RZero, delayBufferSamples |-> 0,
     delayBuffer |-> <<>>, delayWritePosition |-> 0,
     paramDelayTime |-> delayTime, paramFeedback |-> feedback,
     paramBalance |-> balance, paramMix |-> mix,
     live |-> TRUE, prepared |-> FALSE, changes |-> 0, log |-> <<>>]

\* PingPongDelayAudioProcessor::prepareToPlay
PingPongPrepare(p, sampleRate) ==
    LET n == BufferSamplesFor(PingPongMaxDelayTime, sampleRate)
    IN  [p EXCEPT !.sampleRate = sampleRate,
                  !.delayBufferSamples = n,
                  !.delayBuffer = [ch \in 0 .. 1 |-> ClearedBuffer(n)],
                  !.delayWritePosition = 0,
                  !.prepared = TRUE, !.changes = 0, !.log = <<>>]

\* readPosition of a sample step
PingPongReadPosition(p, localWritePosition) ==
    RFmod(RAdd(RSub(RInt(localWritePosition),
                    RMul(p.paramDelayTime, p.sampleRate)),
               RInt(p.delayBufferSamples)),
          p.delayBufferSamples)

\* the linear read of one channel at readPosition
PingPongInterpolate(delayData, delayBufferSamples, readPosition) ==
    LET localReadPosition == RFloor(readPosition)
        fraction == RSub(readPosition, RInt(localReadPosition))
        delayed1 == delayData[localReadPosition + 0]
        delayed2 == delayData[(localReadPosition + 1) % delayBufferSamples]
    IN  RAdd(delayed1, RMul(fraction, RSub(delayed2, delayed1)))

\* a sample step that stores the two inputs whatever the read position is
PingPongSampleAlwaysWrite(p, delayDataL, delayDataR, localWritePosition, left, right) ==
    LET inL == RMul(RSub(ROne, p.paramBalance), left)
        inR == RMul(p.paramBalance, right)
        readPosition == PingPongReadPosition(p, localWritePosition)
        reading == RFloor(readPosition) # localWritePosition
        outL == IF reading
                THEN PingPongInterpolate(delayDataL, p.delayBufferSamples, readPosition)
                ELSE RZero
        outR == IF reading
                THEN PingPongInterpolate(delayDataR, p.delayBufferSamples, readPosition)
                ELSE RZero
    IN  [delayDataL |-> [delayDataL EXCEPT ![localWritePosition] =
                            RAdd(inL, RMul(outR, p.paramFeedback))],
         delayDataR |-> [delayDataR EXCEPT ![localWritePosition] =
                            RAdd(inR, RMul(outL, p.paramFeedback))],
         localWritePosition |->
             AdvanceWritePosition(localWritePosition, p.delayBufferSamples),
         entry |-> [inL |-> inL, inR |-> inR, wp |-> localWritePosition,
                    delayTime |-> RMul(p.paramDelayTime, p.sampleRate),
                    readPosition |-> readPosition,
                    reading |-> reading, outL |-> outL, outR |-> outR,
                    writes |-> {localWritePosition},
                    storedL |-> RAdd(inL, RMul(outR, p.paramFeedback)),
                    storedR |-> RAdd(inR, RMul(outL, p.paramFeedback)),
                    channelL |-> IF reading
                                 THEN RAdd(inL, RMul(p.paramMix, RSub(outL, inL)))
                                 ELSE left,
                    channelR |-> IF reading
                                 THEN RAdd(inR, RMul(p.paramMix, RSub(outR, inR)))
                                 ELSE right]]

\* one pass of the sample loop: the reads and both stores sit inside
\* if (localReadPosition != localWritePosition); the cursor always advances
PingPongSample(p, delayDataL, delayDataR, localWritePosition, left, right) ==
    LET inL == RMul(RSub(ROne, p.paramBalance), left)
        inR == RMul(p.paramBalance, right)
        readPosition == PingPongReadPosition(p, localWritePosition)
        reading == RFloor(readPosition) # localWritePosition
        outL == IF reading
                THEN PingPongInterpolate(delayDataL, p.delayBufferSamples, readPosition)
                ELSE RZero
        outR == IF reading
                THEN PingPongInterpolate(delayDataR, p.delayBufferSamples, readPosition)
                ELSE RZero
        storedL == RAdd(inL, RMul(outR, p.paramFeedback))
        storedR == RAdd(inR, RMul(outL, p.paramFeedback))
    IN  [delayDataL |-> IF reading
                        THEN [delayDataL EXCEPT ![localWritePosition] = storedL]
                        ELSE delayDataL,
         delayDataR |-> IF reading
                        THEN [delayDataR EXCEPT ![localWritePosition] = storedR]
                        ELSE delayDataR,
         localWritePosition |->
             AdvanceWritePosition(localWritePosition, p.delayBufferSamples),
         entry |-> [inL |-> inL, inR |-> inR, wp |-> localWritePosition,
                    delayTime |-> RMul(p.paramDelayTime, p.sampleRate),
                    readPosition |-> readPosition,
                    reading |-> reading, outL |-> outL, outR |-> outR,
                    writes |-> IF reading THEN {localWritePosition} ELSE {},
                    storedL |-> storedL, storedR |-> storedR,
                    channelL |-> IF reading
                                 THEN RAdd(inL, RMul(p.paramMix, RSub(outL, inL)))
                                 ELSE left,
                    channelR |-> IF reading
                                 THEN RAdd(inR, RMul(p.paramMix, RSub(outR, inR)))
                                 ELSE right]]

\* the sample loop
RECURSIVE PingPongSamples(_, _, _, _)
PingPongSamples(p, st, block, sample) ==
    IF sample > Len(block[0]) THEN st
    ELSE LET r == PingPongSample(p, st.delayDataL, st.delayDataR,
                                 st.localWritePosition,
                                 RInt(block[0][sample]), RInt(block[1][sample]))
         IN  PingPongSamples(p, [delayDataL |-> r.delayDataL,
                                 delayDataR |-> r.delayDataR,
                                 localWritePosition |-> r.localWritePosition,
                                 entries |-> Append(st.entries, r.entry)],
                             block, sample + 1)

\* PingPongDelayAudioProcessor::processBlock
PingPongSave(p, res) ==
    [p EXCEPT !.delayBuffer = [ch \in 0 .. 1 |->
                                 IF ch = 0 THEN res.delayDataL ELSE res.delayDataR],
              !.delayWritePosition = res.localWritePosition,
              !.log = p.log \o res.entries]

PingPongProcessBlock(p, block) ==
    PingPongSave(p, PingPongSamples(p, [delayDataL |-> p.delayBuffer[0],
                                        delayDataR |-> p.delayBuffer[1],
                                        localWritePosition |-> p.delayWritePosition,
                                        entries |-> <<>>],
                                    block, 1))

-----------------------------------------------------------------------------
(* Panning: two DelayLine objects fed with the left input.                 *)

methodPanoramaPrecedence == 0
methodItdIld == 1
PanningMethods == {methodPanoramaPrecedence, methodItdIld}

\* the sample rate prepareToPlay is called with: maximumDelayInSamples is 2
PanningSampleRates == {RInt(2000)}
\* paramPanning (-1 .. 1)
PanningValues == {RInt(-1), Rat(-1, 3), RZero, Rat(1, 3), ROne}

\* DelayLine::setup
DelayLineSetup(maxDelayTimeInSamples) ==
    LET n == IF maxDelayTimeInSamples + 2 < 1 THEN 1 ELSE maxDelayTimeInSamples + 2
    IN  [delayBufferSamples |-> n, delayBuffer |-> ClearedBuffer(n),
         delayWritePosition |-> 0]

\* DelayLine::writeSample
DelayLineWriteSample(dl, sampleToWrite) ==
    [dl EXCEPT !.delayBuffer[dl.delayWritePosition] = sampleToWrite,
                 !.delayWritePosition =
                     AdvanceWritePosition(dl.delayWritePosition,
                                          dl.delayBufferSamples)]

\* a readPosition measured from the write position itself
DelayLineReadPositionFromCursor(dl, delayTime) ==
    RFmod(RAdd(RSub(RInt(dl.delayWritePosition), delayTime),
               RInt(dl.delayBufferSamples)),
          dl.delayBufferSamples)

\* readPosition of DelayLine::readSample measured from the slot before the
\* write position
DelayLineReadPosition(dl, delayTime) ==
    RFmod(RAdd(RSub(RInt(dl.delayWritePosition - 1), delayTime),
               RInt(dl.delayBufferSamples)),
          dl.delayBufferSamples)

\* DelayLine::readSample
DelayLineReadSample(dl, delayTime) ==
    LET readPosition == DelayLineReadPosition(dl, delayTime)
        localReadPosition == RFloor(readPosition)
        fraction == RSub(readPosition, RInt(localReadPosition))
        delayed1 == dl.delayBuffer[localReadPosition + 0]
        delayed2 == dl.delayBuffer[(localReadPosition + 1) % dl.delayBufferSamples]
    IN  RAdd(delayed1, RMul(fraction, RSub(delayed2, delayed1)))

PanningConstructed(method, value) ==
    [sampleRate |-> RZero, maximumDelayInSamples |-> 0,
     delayLineL |-> <<>>, delayLineR |-> <<>>,
     paramMethod |-> method, paramPanning |-> value,
     live |-> TRUE, prepared |-> FALSE, changes |-> 0, log |-> <<>>]

\* PanningAudioProcessor::prepareToPlay
PanningPrepare(p, sampleRate) ==
    LET maximum == RFloor(RMul(Rat(1, 1000), sampleRate))
    IN  [p EXCEPT !.sampleRate = sampleRate,
                  !.maximumDelayInSamples = maximum,
                  !.delayLineL = DelayLineSetup(maximum),
                  !.delayLineR = DelayLineSetup(maximum),
                  !.prepared = TRUE, !.changes = 0, !.log = <<>>]

\* headFactor = sampleRate * headRadius / speedOfSound
PanningHeadFactor(p) == RDiv(RMul(p.sampleRate, Rat(85, 1000)), RInt(340))

\* (float)M_PI_2, the float nearest to pi / 2
FloatHalfPi == Rat(13176795, 8388608)

\* Td (angle) of the ITD method for angle = quarterTurns * pi / 2; cosf is
\* taken at the angles where it is rational
PanningTd(headFactor, quarterTurns) ==
    IF RLt(RAbs(quarterTurns), ROne)
    THEN RMul(headFactor,
              RSub(ROne, CosTwoPi(quarterTurns[1], 4 * quarterTurns[2])))
    ELSE RMul(headFactor,
              RAdd(ROne, RMul(RSub(RAbs(quarterTurns), ROne), FloatHalfPi)))

\* <<delay time left, delay time right>>, in samples, of a block
PanningDelayTimes(p) ==
    IF p.paramMethod = methodPanoramaPrecedence
    THEN LET delayFactor == RDiv(RAdd(p.paramPanning, ROne), RInt(2))
         IN  <<RMul(RInt(p.maximumDelayInSamples), delayFactor),
               RMul(RInt(p.maximumDelayInSamples), RSub(ROne, delayFactor))>>
    ELSE <<PanningTd(PanningHeadFactor(p), RAdd(p.paramPanning, ROne)),
           PanningTd(PanningHeadFactor(p), RSub(p.paramPanning, ROne))>>

\* one pass of either sample loop: writeSample on both lines, then
\* readSample on both lines
PanningSample(p, lineL, lineR, delayTimes, in) ==
    LET writtenL == DelayLineWriteSample(lineL, in)
        writtenR == DelayLineWriteSample(lineR, in)
    IN  [delayLineL |-> writtenL, delayLineR |-> writtenR,
         entry |-> [in |-> in,
                    wpL |-> lineL.delayWritePosition,
                    wpR |-> lineR.delayWritePosition,
                    writesL |-> {lineL.delayWritePosition},
                    writesR |-> {lineR.delayWritePosition},
                    delayTimeL |-> delayTimes[1], delayTimeR |-> delayTimes[2],
                    readL |-> DelayLineReadSample(writtenL, delayTimes[1]),
                    readR |-> DelayLineReadSample(writtenR, delayTimes[2])]]

\* the sample loop
RECURSIVE PanningSamples(_, _, _, _, _)
PanningSamples(p, st, delayTimes, data, sample) ==
    IF sample > Len(data) THEN st
    ELSE LET r == PanningSample(p, st.delayLineL, st.delayLineR, delayTimes,
                                RInt(data[sample]))
         IN  PanningSamples(p, [delayLineL |-> r.delayLineL,
                                delayLineR |-> r.delayLineR,
                                entries |-> Append(st.entries, r.entry)],
                            delayTimes, data, sample + 1)

\* PanningAudioProcessor::processBlock: the delay lines take the left channel
PanningSave(p, res) ==
    [p EXCEPT !.delayLineL = res.delayLineL,
              !.delayLineR = res.delayLineR,
              !.log = p.log \o res.entries]

PanningProcessBlock(p, block) ==
    PanningSave(p, PanningSamples(p, [delayLineL |-> p.delayLineL,
                                      delayLineR |-> p.delayLineR,
                                      entries |-> <<>>],
                                  PanningDelayTimes(p), block[0], 1))

-----------------------------------------------------------------------------
(* The four delay plugins as state machines: prepareToPlay, a parameter    *)
(* change (the parameter's callback stores the new value) and processBlock.*)

\* the record of a plugin that is not the one running
Absent == [live |-> FALSE]

DelayOthers == UNCHANGED <<stft, plug, line, param, filt, wah>>

ChorusPrepareToPlay ==
    /\ chorus.live
    /\ \E sampleRate \in ChorusSampleRates, channels \in ChannelCounts :
          chorus' = ChorusPrepare(chorus, sampleRate, channels)
    /\ UNCHANGED <<vibrato, pingpong, panning>> /\ DelayOthers

ChorusParameterChanged ==
    /\ chorus.live /\ chorus.changes < MaxChanges
    /\ \E c \in {[chorus EXCEPT !.paramDelay = x] : x \in ChorusDelays}
            \cup {[chorus EXCEPT !.paramWidth = x] : x \in ChorusWidths}
            \cup {[chorus EXCEPT !.paramFrequency = x] : x \in ChorusFrequencies}
            \cup {[chorus EXCEPT !.paramWaveform = x] : x \in ChorusWaveforms}
            \cup {[chorus EXCEPT !.paramInterpolation = x] : x \in Interpolations}
            \cup {[chorus EXCEPT !.paramNumVoices = x] : x \in ChorusVoices} :
          /\ c # chorus
          /\ chorus' = [c EXCEPT !.changes = chorus.changes + 1]
    /\ UNCHANGED <<vibrato, pingpong, panning>> /\ DelayOthers

ChorusProcess ==
    /\ chorus.live /\ chorus.prepared
    /\ \E n \in 0 .. MaxBlock :
          /\ chorus.numChannels * (Len(chorus.log[0]) + n) <= DelayMaxSteps
          /\ \E block \in Blocks(chorus.numChannels, n) :
                chorus' = ChorusProcessBlock(chorus, block)
    /\ UNCHANGED <<vibrato, pingpong, panning>> /\ DelayOthers

VibratoPrepareToPlay ==
    /\ vibrato.live
    /\ \E sampleRate \in VibratoSampleRates, channels \in ChannelCounts :
          vibrato' = VibratoPrepare(vibrato, sampleRate, channels)
    /\ UNCHANGED <<chorus, pingpong, panning>> /\ DelayOthers

VibratoParameterChanged ==
    /\ vibrato.live /\ vibrato.changes < MaxChanges
    /\ \E v \in {[vibrato EXCEPT !.paramWidth = x] : x \in VibratoWidths}
            \cup {[vibrato EXCEPT !.paramFrequency = x] : x \in VibratoFrequencies}
            \cup {[vibrato EXCEPT !.paramWaveform = x] : x \in VibratoWaveforms}
            \cup {[vibrato EXCEPT !.paramInterpolation = x] : x \in Interpolations} :
          /\ v # vibrato
          /\ vibrato' = [v EXCEPT !.changes = vibrato.changes + 1]
    /\ UNCHANGED <<chorus, pingpong, panning>> /\ DelayOthers

VibratoProcess ==
    /\ vibrato.live /\ vibrato.prepared
    /\ \E n \in 0 .. MaxBlock :
          /\ vibrato.numChannels * (Len(vibrato.log[0]) + n) <= DelayMaxSteps
          /\ \E block \in Blocks(vibrato.numChannels, n) :
                vibrato' = VibratoProcessBlock(vibrato, block)
    /\ UNCHANGED <<chorus, pingpong, panning>> /\ DelayOthers

PingPongPrepareToPlay ==
    /\ pingpong.live
    /\ \E sampleRate \in PingPongSampleRates :
          pingpong' = PingPongPrepare(pingpong, sampleRate)
    /\ UNCHANGED <<chorus, vibrato, panning>> /\ DelayOthers

PingPongParameterChanged ==
    /\ pingpong.live /\ pingpong.changes < MaxChanges
    /\ \E p \in {[pingpong EXCEPT !.paramDelayTime = x] : x \in PingPongDelayTimes}
            \cup {[pingpong EXCEPT !.paramFeedback = x] : x \in PingPongFeedbacks}
            \cup {[pingpong EXCEPT !.paramBalance = x] : x \in PingPongBalances}
            \cup {[pingpong EXCEPT !.paramMix = x] : x \in PingPongMixes} :
          /\ p # pingpong
          /\ pingpong' = [p EXCEPT !.changes = pingpong.changes + 1]
    /\ UNCHANGED <<chorus, vibrato, panning>> /\ DelayOthers

PingPongProcess ==
    /\ pingpong.live /\ pingpong.prepared
    /\ \E n \in 0 .. MaxBlock :
          /\ Len(pingpong.log) + n <= DelayMaxSteps
          /\ \E block \in Blocks(2, n) :
                pingpong' = PingPongProcessBlock(pingpong, block)
    /\ UNCHANGED <<chorus, vibrato, panning>> /\ DelayOthers

PanningPrepareToPlay ==
    /\ panning.live
    /\ \E sampleRate \in PanningSampleRates :
          panning' = PanningPrepare(panning, sampleRate)
    /\ UNCHANGED <<chorus, vibrato, pingpong>> /\ DelayOthers

PanningParameterChanged ==
    /\ panning.live /\ panning.changes < MaxChanges
    /\ \E p \in {[panning EXCEPT !.paramMethod = x] : x \in PanningMethods}
            \cup {[panning EXCEPT !.paramPanning = x] : x \in PanningValues} :
          /\ p # panning
          /\ panning' = [p EXCEPT !.changes = panning.changes + 1]
    /\ UNCHANGED <<chorus, vibrato, pingpong>> /\ DelayOthers

PanningProcess ==
    /\ panning.live /\ panning.prepared
    /\ \E n \in 0 .. MaxBlock :
          /\ Len(panning.log) + n <= DelayMaxSteps
          /\ \E block \in Blocks(2, n) :
                panning' = PanningProcessBlock(panning, block)
    /\ UNCHANGED <<chorus, vibrato, pingpong>> /\ DelayOthers

\* one of the four plugins has been constructed, its parameters at any of
\* the values tried
DelayInit ==
    /\ stft = 0 /\ plug = 0 /\ line = 0 /\ param = 0 /\ filt = 0 /\ wah = 0
    /\ \/ /\ chorus \in {ChorusConstructed(d, w, f, wf, i, nv) :
                            d \in ChorusDelays, w \in ChorusWidths,
                            f \in ChorusFrequencies, wf \in ChorusWaveforms,
                            i \in Interpolations, nv \in ChorusVoices}
          /\ vibrato = Absent /\ pingpong = Absent /\ panning = Absent
       \/ /\ vibrato \in {VibratoConstructed(w, f, wf, i) :
                             w \in VibratoWidths, f \in VibratoFrequencies,
                             wf \in VibratoWaveforms, i \in Interpolations}
          /\ chorus = Absent /\ pingpong = Absent /\ panning = Absent
       \/ /\ pingpong \in {PingPongConstructed(d, f, b, m) :
                              d \in PingPongDelayTimes, f \in PingPongFeedbacks,
                              b \in PingPongBalances, m \in PingPongMixes}
          /\ chorus = Absent /\ vibrato = Absent /\ panning = Absent
       \/ /\ panning \in {PanningConstructed(m, v) :
                             m \in PanningMethods, v \in PanningValues}
          /\ chorus = Absent /\ vibrato = Absent /\ pingpong = Absent

DelayNext ==
    \/ ChorusPrepareToPlay
    \/ ChorusParameterChanged
    \/ ChorusProcess
    \/ VibratoPrepareToPlay
    \/ VibratoParameterChanged
    \/ VibratoProcess
    \/ PingPongPrepareToPlay
    \/ PingPongParameterChanged
    \/ PingPongProcess
    \/ PanningPrepareToPlay
    \/ PanningParameterChanged
    \/ PanningProcess

SpecDelay == DelayInit /\ [][DelayNext]_vars

-----------------------------------------------------------------------------
(* Claims about the delay lines.                                           *)

\* the write position is inside the buffer and has walked 0, 1, ..., n - 1,
\* 0, ... by one slot per logged step
CursorWalks(wps, n, cursor) ==
    /\ cursor \in 0 .. n - 1
    /\ cursor = Len(wps) % n
    /\ \A k \in 1 .. Len(wps) : wps[k] = (k - 1) % n

\* every slot holds what the last step that assigned it stored, 0 if no
\* step assigned it
HoldsLastWrites(buffer, n, writes, stored) ==
    \A i \in 0 .. n - 1 :
        LET K == {k \in 1 .. Len(writes) : i \in writes[k]}
        IN  buffer[i] = IF K = {} THEN RZero
                        ELSE stored[CHOOSE k \in K : \A j \in K : j <= k]

\* every logged step assigned exactly the slot at its write position
WritesAtCursor(wps, writes) ==
    \A k \in 1 .. Len(wps) : writes[k] = {wps[k]}

Field(entries, name) == [k \in 1 .. Len(entries) |-> entries[k][name]]

ChorusWritesOnce ==
    (chorus.live /\ chorus.prepared) =>
        \A ch \in 0 .. chorus.numChannels - 1 :
            LET e == chorus.log[ch]
            IN  /\ CursorWalks(Field(e, "wp"), chorus.delayBufferSamples,
                               chorus.delayWritePosition)
                /\ WritesAtCursor(Field(e, "wp"), Field(e, "writes"))
                /\ HoldsLastWrites(chorus.delayBuffer[ch], chorus.delayBufferSamples,
                                   Field(e, "writes"), Field(e, "in"))

PanningWritesOnce ==
    (panning.live /\ panning.prepared) =>
        LET e == panning.log
        IN  /\ CursorWalks(Field(e, "wpL"), panning.delayLineL.delayBufferSamples,
                           panning.delayLineL.delayWritePosition)
            /\ CursorWalks(Field(e, "wpR"), panning.delayLineR.delayBufferSamples,
                           panning.delayLineR.delayWritePosition)
            /\ WritesAtCursor(Field(e, "wpL"), Field(e, "writesL"))
            /\ WritesAtCursor(Field(e, "wpR"), Field(e, "writesR"))
            /\ HoldsLastWrites(panning.delayLineL.delayBuffer,
                               panning.delayLineL.delayBufferSamples,
                               Field(e, "writesL"), Field(e, "in"))
            /\ HoldsLastWrites(panning.delayLineR.delayBuffer,
                               panning.delayLineR.delayBufferSamples,
                               Field(e, "writesR"), Field(e, "in"))

PingPongCursorAndBuffer ==
    LET e == pingpong.log
    IN  /\ CursorWalks(Field(e, "wp"), pingpong.delayBufferSamples,
                       pingpong.delayWritePosition)
        /\ HoldsLastWrites(pingpong.delayBuffer[0], pingpong.delayBufferSamples,
                           Field(e, "writes"), Field(e, "storedL"))
        /\ HoldsLastWrites(pingpong.delayBuffer[1], pingpong.delayBufferSamples,
                           Field(e, "writes"), Field(e, "storedR"))

\* C4 as stated: in Chorus, Ping-Pong Delay and Panning::DelayLine the write
\* position stays inside the buffer, and every sample step assigns exactly
\* the slot at the pre-advance write position and advances the position by
\* one modulo the buffer length, a delay time of 0 included.
C4_OneWritePerSample ==
    /\ ChorusWritesOnce
    /\ PanningWritesOnce
    /\ (pingpong.live /\ pingpong.prepared) =>
          /\ PingPongCursorAndBuffer
          /\ WritesAtCursor(Field(pingpong.log, "wp"), Field(pingpong.log, "writes"))

\* C4 amended: the write position stays inside the buffer and advances by
\* one modulo the buffer length per sample step in all three; Chorus and
\* Panning::DelayLine assign exactly the slot at the pre-advance position in
\* every step; Ping-Pong Delay assigns that slot (in both channels) only when
\* floor(readPosition) differs from the write position, and assigns nothing
\* otherwise, in particular for a delay time of 0.
C4_WriteUnlessReadAtCursor ==
    /\ ChorusWritesOnce
    /\ PanningWritesOnce
    /\ (pingpong.live /\ pingpong.prepared) =>
          /\ PingPongCursorAndBuffer
          /\ \A k \in 1 .. Len(pingpong.log) :
                LET e == pingpong.log[k]
                IN  /\ e.writes = IF RFloor(e.readPosition) = e.wp THEN {}
                                  ELSE {e.wp}
                    /\ e.delayTime = RZero => e.writes = {}

\* Ping-Pong Delay has gone once round its buffer, and a step with delay
\* time 0 and a non-zero left input assigned no slot
C4_Witness ==
    /\ pingpong.live /\ pingpong.prepared
    /\ Len(pingpong.log) > pingpong.delayBufferSamples
    /\ \E k \in 1 .. Len(pingpong.log) :
          /\ pingpong.log[k].delayTime = RZero
          /\ pingpong.log[k].inL # RZero
          /\ pingpong.log[k].writes = {}
    /\ \E k \in 1 .. Len(pingpong.log) : pingpong.log[k].writes # {}

\* the input of step k of a channel's log, 0 before the first step
InputAt(entries, k) == IF k >= 1 THEN entries[k]["in"] ELSE RZero

IsWholeDelay(delayTime, lo, hi) ==
    delayTime[2] = 1 /\ lo <= delayTime[1] /\ delayTime[1] <= hi

\* every logged read with a whole delay d in lo .. n - 1 sat at
\* (wp - d - offset + n) mod n and, if nearest-neighbour, returned the input
\* of step (its own step) - d - offset
ReadsDelayed(entries, n, lo, offset) ==
    \A k \in 1 .. Len(entries) :
        \A v \in DOMAIN entries[k].reads :
            LET r == entries[k].reads[v]
                d == r.delayTime[1]
            IN  IsWholeDelay(r.delayTime, lo, n - 1) =>
                   /\ r.readPosition = RInt((entries[k].wp - d - offset + n) % n)
                   /\ r.interpolation = interpolationNearestNeighbour =>
                         r.value = InputAt(entries, k - d - offset)

ChorusReadsDelayed ==
    (chorus.live /\ chorus.prepared) =>
        \A ch \in 0 .. chorus.numChannels - 1 :
            ReadsDelayed(chorus.log[ch], chorus.delayBufferSamples, 1, 0)

PingPongReadPositions ==
    (pingpong.live /\ pingpong.prepared) =>
        \A k \in 1 .. Len(pingpong.log) :
            LET e == pingpong.log[k]
                n == pingpong.delayBufferSamples
            IN  IsWholeDelay(e.delayTime, 1, n - 1) =>
                    e.readPosition = RInt((e.wp - e.delayTime[1] + n) % n)

\* C5 as stated: in Chorus, Vibrato and Ping-Pong Delay a read with a whole
\* delay d, 1 <= d <= bufferLength - 1, sits at (writePosition - d +
\* bufferLength) mod bufferLength, and the nearest-neighbour read of step n
\* returns the input written at step n - d (0 before the start).
C5_ReadDelayedByD ==
    /\ ChorusReadsDelayed
    /\ PingPongReadPositions
    /\ (vibrato.live /\ vibrato.prepared) =>
          \A ch \in 0 .. vibrato.numChannels - 1 :
              ReadsDelayed(vibrato.log[ch], vibrato.delayBufferSamples, 1, 0)

\* C5 amended: Chorus and Ping-Pong Delay read at (writePosition - d +
\* bufferLength) mod bufferLength for whole d in 1 .. bufferLength - 1;
\* Chorus's nearest-neighbour read of step n returns the input of step n - d,
\* and Ping-Pong's linear read returns what step n - d stored (its balanced
\* input plus feedback times the other channel's read) if that step stored,
\* 0 before the start.  Vibrato reads one slot further back: for whole d in
\* 0 .. bufferLength - 1 at (writePosition - d - 1 + bufferLength) mod
\* bufferLength, returning the input of step n - d - 1.
C5_VibratoOneSlotFurther ==
    /\ ChorusReadsDelayed
    /\ PingPongReadPositions
    /\ (pingpong.live /\ pingpong.prepared) =>
          \A k \in 1 .. Len(pingpong.log) :
              LET e == pingpong.log[k]
                  d == e.delayTime[1]
              IN  IsWholeDelay(e.delayTime, 1, pingpong.delayBufferSamples - 1) =>
                     /\ e.reading
                     /\ k - d < 1 => e.outL = RZero /\ e.outR = RZero
                     /\ (k - d >= 1 /\ pingpong.log[k - d].reading) =>
                           /\ e.outL = pingpong.log[k - d].storedL
                           /\ e.outR = pingpong.log[k - d].storedR
    /\ (vibrato.live /\ vibrato.prepared) =>
          \A ch \in 0 .. vibrato.numChannels - 1 :
              ReadsDelayed(vibrato.log[ch], vibrato.delayBufferSamples, 0, 1)

\* Vibrato, past one round of its buffer: a nearest-neighbour read with
\* delay 1 returned the 1 fed two steps earlier, not the 0 fed one step
\* earlier
C5_Witness ==
    /\ vibrato.live /\ vibrato.prepared
    /\ \E ch \in 0 .. vibrato.numChannels - 1 :
          \E k \in 1 .. Len(vibrato.log[ch]) :
              LET e == vibrato.log[ch][k]
              IN  /\ k > vibrato.delayBufferSamples
                  /\ e.reads[1].interpolation = interpolationNearestNeighbour
                  /\ e.reads[1].delayTime = ROne
                  /\ e.reads[1].value = ROne
                  /\ vibrato.log[ch][k - 1]["in"] = RZero
                  /\ vibrato.log[ch][k - 2]["in"] = ROne

Inputs == {RInt(x) : x \in SampleValues}

\* what the next sample step would read does not depend on its input
ChorusReadsIgnoreInput ==
    (chorus.live /\ chorus.prepared) =>
        \A ch \in 0 .. chorus.numChannels - 1 : \A x, y \in Inputs :
            ChorusSample(chorus, chorus.delayBuffer[ch], chorus.delayWritePosition,
                         chorus.lfoPhase, x).entry.reads
            = ChorusSample(chorus, chorus.delayBuffer[ch], chorus.delayWritePosition,
                           chorus.lfoPhase, y).entry.reads

VibratoReadsIgnoreInput ==
    (vibrato.live /\ vibrato.prepared) =>
        \A ch \in 0 .. vibrato.numChannels - 1 : \A x, y \in Inputs :
            VibratoSample(vibrato, vibrato.delayBuffer[ch], vibrato.delayWritePosition,
                          vibrato.lfoPhase, x).entry.reads
            = VibratoSample(vibrato, vibrato.delayBuffer[ch],
                            vibrato.delayWritePosition, vibrato.lfoPhase, y).entry.reads

PingPongReadsIgnoreInput ==
    (pingpong.live /\ pingpong.prepared) =>
        \A xl, xr, yl, yr \in Inputs :
            LET a == PingPongSample(pingpong, pingpong.delayBuffer[0],
                                    pingpong.delayBuffer[1],
                                    pingpong.delayWritePosition, xl, xr).entry
                b == PingPongSample(pingpong, pingpong.delayBuffer[0],
                                    pingpong.delayBuffer[1],
                                    pingpong.delayWritePosition, yl, yr).entry
            IN  a.outL = b.outL /\ a.outR = b.outR

\* the next sample step of Panning fed with input `in`
PanningNext(in) ==
    PanningSample(panning, panning.delayLineL, panning.delayLineR,
                  PanningDelayTimes(panning), in).entry

\* C7 as stated: in Chorus, Vibrato, Ping-Pong Delay and Panning the value a
\* sample step reads from the delay buffer does not depend on that step's
\* input.
C7_ReadBeforeWrite ==
    /\ ChorusReadsIgnoreInput
    /\ VibratoReadsIgnoreInput
    /\ PingPongReadsIgnoreInput
    /\ (panning.live /\ panning.prepared) =>
          \A x, y \in Inputs :
              /\ PanningNext(x).readL = PanningNext(y).readL
              /\ PanningNext(x).readR = PanningNext(y).readR

\* C7 amended: in Chorus, Vibrato and Ping-Pong Delay the value a sample step
\* reads does not depend on that step's input.  Panning stores the input
\* first and reads afterwards: its read is independent of the step's input
\* when the delay time is at least one sample, and with a delay time of 0 it
\* returns the step's input itself.
C7_ReadBeforeWriteButPanning ==
    /\ ChorusReadsIgnoreInput
    /\ VibratoReadsIgnoreInput
    /\ PingPongReadsIgnoreInput
    /\ (panning.live /\ panning.prepared) =>
          \A x, y \in Inputs :
              LET a == PanningNext(x)
                  b == PanningNext(y)
              IN  /\ RLe(ROne, a.delayTimeL) => a.readL = b.readL
                  /\ RLe(ROne, a.delayTimeR) => a.readR = b.readR
                  /\ a.delayTimeL = RZero => a.readL = x
                  /\ a.delayTimeR = RZero => a.readR = x

\* Panning has processed a step whose left line (delay 0) returned the 1
\* just fed while its right line (delay 2) returned the 0 fed two steps
\* earlier
C7_Witness ==
    /\ panning.live /\ panning.prepared
    /\ \E k \in 3 .. Len(panning.log) :
          LET e == panning.log[k]
          IN  /\ e.delayTimeL = RZero /\ e["in"] = ROne /\ e.readL = ROne
              /\ e.delayTimeR = RInt(2) /\ e.readR = RZero
              /\ panning.log[k - 2]["in"] = RZero


-----------------------------------------------------------------------------
\* One DelayLine of Panning/Source/PluginProcessor.h on its own, fed the ramp
\* 1, 2, 3, ... and read between writes

\* arguments of setup: buffers of 4 and of 100 slots
LineMaxDelays == {2, 98}
\* how many samples of the ramp are written
MaxWrites == 100
\* arguments of readSample
LineDelayTimes == {RZero, RInt(1), Rat(3, 2), RInt(5)}

LineOthers ==
    UNCHANGED <<stft, plug, chorus, vibrato, pingpong, panning, param, filt, wah>>

\* a DelayLine before setup, with no call made on it
LineConstructed ==
    [ready |-> FALSE,
     dl |-> [delayBufferSamples |-> 0, delayBuffer |-> ClearedBuffer(0),
             delayWritePosition |-> 0],
     written |-> 0, lastRead |-> <<>>]

\* setup (maxDelayTimeInSamples)
LineSetup ==
    /\ LineOthers
    /\ \E maxDelayTimeInSamples \in LineMaxDelays :
          line' = [ready |-> TRUE, dl |-> DelayLineSetup(maxDelayTimeInSamples),
                   written |-> 0, lastRead |-> <<>>]

\* writeSample of the next value of the ramp
LineWrite ==
    /\ LineOthers
    /\ line.ready
    /\ line.written < MaxWrites
    /\ line' = [line EXCEPT !.dl = DelayLineWriteSample(line.dl, RInt(line.written + 1)),
                            !.written = @ + 1,
                            !.lastRead = <<>>]

\* readSample (delayTime), delayTime within the maximum handed to setup
LineRead ==
    /\ LineOthers
    /\ line.ready
    /\ \E delayTime \in LineDelayTimes :
          /\ RLe(delayTime, RInt(line.dl.delayBufferSamples - 2))
          /\ line' = [line EXCEPT !.lastRead =
                         <<[delayTime |-> delayTime,
                            value |-> DelayLineReadSample(line.dl, delayTime)]>>]

LineInit ==
    /\ line = LineConstructed
    /\ stft = 0 /\ plug = 0 /\ chorus = 0 /\ vibrato = 0 /\ pingpong = 0
    /\ panning = 0 /\ param = 0 /\ filt = 0 /\ wah = 0

LineNext == LineSetup \/ LineWrite \/ LineRead

SpecLine == LineInit /\ [][LineNext]_vars

\* 1 .. 100 have been written into a line of 100 slots and readSample (5.0)
\* was called
RampRead5 ==
    /\ line.ready
    /\ line.dl.delayBufferSamples = 100
    /\ line.written = 100
    /\ line.lastRead # <<>>
    /\ line.lastRead[1].delayTime = RInt(5)

\* C6 as stated: after 1 .. 100 were written into a DelayLine of 100 slots,
\* readSample (5.0) returns 96, the value stored in slot 95
C6_Returns96 ==
    RampRead5 => /\ line.lastRead[1].value = RInt(96)
                 /\ line.dl.delayBuffer[95] = RInt(96)

\* C6 amended: after 1 .. 100 were written into a DelayLine of 100 slots
\* the write position is back at 0 and readSample (5.0) returns 95, the value
\* stored in slot 94: the delay is counted from the last written slot, so a
\* read with a whole delay d on the ramp returns the number of writes less d
\* (0 where that is before the first write)
C6_Returns95 ==
    /\ RampRead5 => /\ line.dl.delayWritePosition = 0
                    /\ line.lastRead[1].value = RInt(95)
                    /\ line.dl.delayBuffer[94] = RInt(95)
    /\ (line.ready /\ line.lastRead # <<>> /\ line.lastRead[1].delayTime[2] = 1)
          => line.lastRead[1].value =
                 LET k == line.written - line.lastRead[1].delayTime[1]
                 IN  IF k >= 1 THEN RInt(k) ELSE RZero

\* the scenario of C6 has happened
C6_Witness == RampRead5

-----------------------------------------------------------------------------
\* PluginParameter (Delay/Source/PluginParameter.h), a juce::LinearSmoothedValue
\* that listens to its external parameter

\* values of the external parameter
ParamValues == {RZero, ROne, RInt(2), RInt(3)}

\* the remapping handed to the constructor: none, or milliseconds to seconds
callbackNone == "callbackNone"
callbackSeconds == "callbackSeconds"
Callbacks == {callbackNone, callbackSeconds}

\* prepareToPlay: reset (sampleRate, smoothTime) with smoothTime = 1e-3
smoothTime == Rat(1, 1000)
ParamSampleRates == {RInt(1000), RInt(2000)}

ParamOthers ==
    UNCHANGED <<stft, plug, chorus, vibrato, pingpong, panning, line, filt, wah>>

\* callback (value)
ParamCallback(callback, value) ==
    IF callback = callbackSeconds THEN RMul(value, Rat(1, 1000)) ELSE value

\* LinearSmoothedValue::setCurrentAndTargetValue
SetCurrentAndTargetValue(p, newValue) ==
    [p EXCEPT !.target = newValue, !.currentValue = newValue, !.countdown = 0]

\* PluginParameter::updateValue
UpdateValue(p, value) ==
    SetCurrentAndTargetValue(p, ParamCallback(p.callback, value))

\* LinearSmoothedValue::reset (sampleRate, rampLengthInSeconds)
SmoothedReset(p, sampleRate, rampLengthInSeconds) ==
    SetCurrentAndTargetValue(
        [p EXCEPT !.stepsToTarget = RFloor(RMul(rampLengthInSeconds, sampleRate))],
        p.target)

\* LinearSmoothedValue::getNextValue
SmoothedNext(p) ==
    IF p.countdown <= 0 THEN [p EXCEPT !.returned = <<p.target>>]
    ELSE LET c == p.countdown - 1
             v == IF c > 0 THEN RAdd(p.currentValue, p.step) ELSE p.target
         IN  [p EXCEPT !.countdown = c, !.currentValue = v, !.returned = <<v>>]

\* the constructor of PluginParameterSlider ends with updateValue (defaultValue)
ParamConstructed(callback, defaultValue) ==
    [UpdateValue([callback |-> callback, stepsToTarget |-> 0, step |-> RZero,
                  countdown |-> 0, currentValue |-> RZero, target |-> RZero,
                  lastCall |-> "constructor", newValue |-> defaultValue,
                  before |-> RZero, returned |-> <<>>],
                 defaultValue)
        EXCEPT !.before = ParamCallback(callback, defaultValue)]

\* prepareToPlay: param.reset (sampleRate, smoothTime)
ParamReset ==
    /\ ParamOthers
    /\ \E sampleRate \in ParamSampleRates :
          param' = [SmoothedReset(param, sampleRate, smoothTime)
                       EXCEPT !.lastCall = "reset"]

\* PluginParameter::parameterChanged
ParameterChanged ==
    /\ ParamOthers
    /\ \E newValue \in ParamValues :
          param' = [UpdateValue(param, newValue)
                       EXCEPT !.lastCall = "parameterChanged",
                              !.newValue = newValue,
                              !.before = param.currentValue]

\* processBlock: param.getNextValue()
GetNextValue ==
    /\ ParamOthers
    /\ param' = [SmoothedNext(param) EXCEPT !.lastCall = "getNextValue"]

ParamInit ==
    /\ param \in {ParamConstructed(cb, v) : cb \in Callbacks, v \in ParamValues}
    /\ stft = 0 /\ plug = 0 /\ chorus = 0 /\ vibrato = 0 /\ pingpong = 0
    /\ panning = 0 /\ line = 0 /\ filt = 0 /\ wah = 0

ParamNext == ParamReset \/ ParameterChanged \/ GetNextValue

SpecParam == ParamInit /\ [][ParamNext]_vars

\* C8 as stated: when the external parameter changes to v the target becomes
\* callback (v) and the current value is still the value it had before the
\* change, a ramp toward the target starting there
C8_RampFromCurrent ==
    param.lastCall = "parameterChanged"
        => /\ param.target = ParamCallback(param.callback, param.newValue)
           /\ param.currentValue = param.before

\* with a ramp of two steps configured the parameter changed to a value other
\* than its current one, and the current value is already the new target
C8_Witness ==
    /\ param.lastCall = "parameterChanged"
    /\ param.stepsToTarget = 2
    /\ param.target = ParamCallback(param.callback, param.newValue)
    /\ param.before # param.target
    /\ param.currentValue = param.target
    /\ param.countdown = 0

-----------------------------------------------------------------------------
\* Filter::updateCoefficients of Parametric EQ, Wah-Wah and Phaser.  Angles are
\* given by rational tangents: u is the tangent of a quarter of
\* discreteFrequency, so that discreteFrequency ranges over (0, pi) as u ranges
\* over (0, 1), and gain is the square of a rational sqrt_gain

filterTypeLowPass == 0
filterTypeHighPass == 1
filterTypeLowShelf == 2
filterTypeHighShelf == 3
filterTypeBandPass == 4
filterTypeBandStop == 5
filterTypePeakingNotch == 6
EqFilterTypes == filterTypeLowPass .. filterTypePeakingNotch

filterTypeResonantLowPass == 0
wahFilterTypeBandPass == 1
wahFilterTypePeakingNotch == 2
WahFilterTypes == filterTypeResonantLowPass .. wahFilterTypePeakingNotch

QuarterTangents == {Rat(1, 4), Rat(1, 2), Rat(3, 4), Rat(9, 10)}
\* the Phaser is also run with a discreteFrequency above its clamp
PhaserQuarterTangents == {Rat(1, 4), Rat(1, 2), Rat(3, 4), Rat(199, 200)}
QFactors == {Rat(1, 2), ROne, RInt(2)}
SqrtGains == {Rat(1, 2), ROne, RInt(2)}

\* tan (2 x) from t = tan (x)
TanDouble(t) == RDiv(RMul(RInt(2), t), RSub(ROne, RMul(t, t)))

RECURSIVE TanTimes(_, _)
TanTimes(t, doublings) ==
    IF doublings = 0 THEN t ELSE TanTimes(TanDouble(t), doublings - 1)

\* the tangent of an eighth of M_PI * 0.99 (0.4097), to two digits
TanEighthClamp == Rat(7, 17)

\* how many times a quarter of discreteFrequency is doubled to give half of
\* discreteFrequency / qFactor
Doublings(qFactor) ==
    CASE qFactor = RInt(2)   -> 0
      [] qFactor = ROne      -> 1
      [] qFactor = Rat(1, 2) -> 2

\* tan (jmin (discreteFrequency / qFactor, M_PI * 0.99) / 2.0)
TanHalfBw(u, qFactor) ==
    TanTimes(RMin(u, TanTimes(TanEighthClamp, 2 - Doublings(qFactor))),
             Doublings(qFactor))

\* tan (discreteFrequency / 2.0)
TanHalfWc(u) == TanDouble(u)

\* -2.0 * cos (discreteFrequency)
TwoCosWc(u) ==
    LET t2 == RMul(TanHalfWc(u), TanHalfWc(u))
    IN  RMul(RInt(-2), RDiv(RSub(ROne, t2), RAdd(ROne, t2)))

\* IIRCoefficients (c1, c2, c3, c4, c5, c6): the five coefficients divided by c4
IIRCoefficients(c1, c2, c3, c4, c5, c6) ==
    [a0 |-> c4,
     coefficients |-> IF c4 = RZero THEN <<>>
                      ELSE <<RDiv(c1, c4), RDiv(c2, c4), RDiv(c3, c4),
                             RDiv(c5, c4), RDiv(c6, c4)>>]

EqLowPass(tan_half_wc) ==
    IIRCoefficients(tan_half_wc, tan_half_wc, RZero,
                    RAdd(tan_half_wc, ROne), RSub(tan_half_wc, ROne), RZero)

EqHighPass(tan_half_wc) ==
    IIRCoefficients(ROne, RInt(-1), RZero,
                    RAdd(tan_half_wc, ROne), RSub(tan_half_wc, ROne), RZero)

EqLowShelf(tan_half_wc, gain, sqrt_gain) ==
    IIRCoefficients(RAdd(RMul(gain, tan_half_wc), sqrt_gain),
                    RSub(RMul(gain, tan_half_wc), sqrt_gain), RZero,
                    RAdd(tan_half_wc, sqrt_gain), RSub(tan_half_wc, sqrt_gain),
                    RZero)

EqHighShelf(tan_half_wc, gain, sqrt_gain) ==
    IIRCoefficients(RAdd(RMul(sqrt_gain, tan_half_wc), gain),
                    RSub(RMul(sqrt_gain, tan_half_wc), gain), RZero,
                    RAdd(RMul(sqrt_gain, tan_half_wc), ROne),
                    RSub(RMul(sqrt_gain, tan_half_wc), ROne), RZero)

EqBandPass(tan_half_bw, two_cos_wc) ==
    IIRCoefficients(tan_half_bw, RZero, RNeg(tan_half_bw),
                    RAdd(ROne, tan_half_bw), two_cos_wc, RSub(ROne, tan_half_bw))

EqBandStop(tan_half_bw, two_cos_wc) ==
    IIRCoefficients(ROne, two_cos_wc, ROne,
                    RAdd(ROne, tan_half_bw), two_cos_wc, RSub(ROne, tan_half_bw))

\* the peaking/notch coefficients with a2 handed over in the place of a0
EqPeakingNotchA2First(tan_half_bw, two_cos_wc, gain, sqrt_gain) ==
    IIRCoefficients(RAdd(sqrt_gain, RMul(gain, tan_half_bw)),
                    RMul(sqrt_gain, two_cos_wc),
                    RSub(sqrt_gain, RMul(gain, tan_half_bw)),
                    RSub(sqrt_gain, tan_half_bw),
                    RMul(sqrt_gain, two_cos_wc),
                    RAdd(sqrt_gain, tan_half_bw))

EqPeakingNotch(tan_half_bw, two_cos_wc, gain, sqrt_gain) ==
    IIRCoefficients(RAdd(sqrt_gain, RMul(gain, tan_half_bw)),
                    RMul(sqrt_gain, two_cos_wc),
                    RSub(sqrt_gain, RMul(gain, tan_half_bw)),
                    RAdd(sqrt_gain, tan_half_bw),
                    RMul(sqrt_gain, two_cos_wc),
                    RSub(sqrt_gain, tan_half_bw))

\* ParametricEQAudioProcessor::Filter::updateCoefficients
EqUpdateCoefficients(u, qFactor, sqrt_gain, filterType) ==
    LET gain == RMul(sqrt_gain, sqrt_gain)
    IN  CASE filterType = filterTypeLowPass -> EqLowPass(TanHalfWc(u))
          [] filterType = filterTypeHighPass -> EqHighPass(TanHalfWc(u))
          [] filterType = filterTypeLowShelf ->
                 EqLowShelf(TanHalfWc(u), gain, sqrt_gain)
          [] filterType = filterTypeHighShelf ->
                 EqHighShelf(TanHalfWc(u), gain, sqrt_gain)
          [] filterType = filterTypeBandPass ->
                 EqBandPass(TanHalfBw(u, qFactor), TwoCosWc(u))
          [] filterType = filterTypeBandStop ->
                 EqBandStop(TanHalfBw(u, qFactor), TwoCosWc(u))
          [] filterType = filterTypePeakingNotch ->
                 EqPeakingNotch(TanHalfBw(u, qFactor), TwoCosWc(u), gain, sqrt_gain)

WahResonantLowPass(tan_half_wc, gain) ==
    LET tan_half_wc_2 == RMul(tan_half_wc, tan_half_wc)
    IN  IIRCoefficients(tan_half_wc_2, RMul(tan_half_wc_2, RInt(2)), tan_half_wc_2,
                        RAdd(RAdd(tan_half_wc_2, RDiv(tan_half_wc, gain)), ROne),
                        RSub(RMul(RInt(2), tan_half_wc_2), RInt(2)),
                        RAdd(RSub(tan_half_wc_2, RDiv(tan_half_wc, gain)), ROne))

WahBandPass(tan_half_bw, two_cos_wc) ==
    IIRCoefficients(tan_half_bw, RZero, RNeg(tan_half_bw),
                    RAdd(ROne, tan_half_bw), two_cos_wc, RSub(ROne, tan_half_bw))

WahPeakingNotch(tan_half_bw, two_cos_wc, gain, sqrt_gain) ==
    IIRCoefficients(RAdd(sqrt_gain, RMul(gain, tan_half_bw)),
                    RMul(sqrt_gain, two_cos_wc),
                    RSub(sqrt_gain, RMul(gain, tan_half_bw)),
                    RAdd(sqrt_gain, tan_half_bw),
                    RMul(sqrt_gain, two_cos_wc),
                    RSub(sqrt_gain, tan_half_bw))

\* WahWahAudioProcessor::Filter::updateCoefficients
WahUpdateCoefficients(u, qFactor, sqrt_gain, filterType) ==
    LET gain == RMul(sqrt_gain, sqrt_gain)
    IN  CASE filterType = filterTypeResonantLowPass ->
                 WahResonantLowPass(TanHalfWc(u), gain)
          [] filterType = wahFilterTypeBandPass ->
                 WahBandPass(TanHalfBw(u, qFactor), TwoCosWc(u))
          [] filterType = wahFilterTypePeakingNotch ->
                 WahPeakingNotch(TanHalfBw(u, qFactor), TwoCosWc(u), gain, sqrt_gain)

\* PhaserAudioProcessor::Filter::updateCoefficients: wc is discreteFrequency
\* clamped to M_PI * 0.99
PhaserUpdateCoefficients(u) ==
    LET tan_half_wc == TanDouble(RMin(u, TanDouble(TanEighthClamp)))
    IN  IIRCoefficients(RSub(tan_half_wc, ROne), RAdd(tan_half_wc, ROne), RZero,
                        RAdd(tan_half_wc, ROne), RSub(tan_half_wc, ROne), RZero)

FilterOthers ==
    UNCHANGED <<stft, plug, chorus, vibrato, pingpong, panning, line, param, wah>>

\* a Filter no coefficients were handed to
FilterConstructed ==
    [active |-> FALSE, effect |-> "none", filterType |-> 0, u |-> RZero,
     qFactor |-> RZero, sqrt_gain |-> RZero, a0 |-> RZero, coefficients |-> <<>>]

FilterSet(effect, filterType, u, qFactor, sqrt_gain, c) ==
    [active |-> TRUE, effect |-> effect, filterType |-> filterType, u |-> u,
     qFactor |-> qFactor, sqrt_gain |-> sqrt_gain, a0 |-> c.a0,
     coefficients |-> c.coefficients]

\* ParametricEQAudioProcessor::updateFilters
EqUpdateFilters ==
    /\ FilterOthers
    /\ \E u \in QuarterTangents, qFactor \in QFactors, sqrt_gain \in SqrtGains,
          filterType \in EqFilterTypes :
          filt' = FilterSet("ParametricEQ", filterType, u, qFactor, sqrt_gain,
                            EqUpdateCoefficients(u, qFactor, sqrt_gain, filterType))

\* WahWahAudioProcessor::updateFilters
WahUpdateFilters ==
    /\ FilterOthers
    /\ \E u \in QuarterTangents, qFactor \in QFactors, sqrt_gain \in SqrtGains,
          filterType \in WahFilterTypes :
          filt' = FilterSet("WahWah", filterType, u, qFactor, sqrt_gain,
                            WahUpdateCoefficients(u, qFactor, sqrt_gain, filterType))

\* PhaserAudioProcessor::updateFilters
PhaserUpdateFilters ==
    /\ FilterOthers
    /\ \E u \in PhaserQuarterTangents :
          filt' = FilterSet("Phaser", 0, u, RZero, RZero, PhaserUpdateCoefficients(u))

FilterInit ==
    /\ filt = FilterConstructed
    /\ stft = 0 /\ plug = 0 /\ chorus = 0 /\ vibrato = 0 /\ pingpong = 0
    /\ panning = 0 /\ line = 0 /\ param = 0 /\ wah = 0

FilterNext == EqUpdateFilters \/ WahUpdateFilters \/ PhaserUpdateFilters

SpecFilter == FilterInit /\ [][FilterNext]_vars

\* C9: for every filter type of the three updateCoefficients, with
\* discreteFrequency in (0, pi), qFactor > 0 and gain > 0, the a0 handed to
\* IIRCoefficients is not zero (it is positive), so the division of the other
\* five coefficients by it is defined
C9_A0NeverZero ==
    filt.active => /\ filt.a0 # RZero
                   /\ RLt(RZero, filt.a0)
                   /\ Len(filt.coefficients) = 5

\* the Parametric EQ computed peaking/notch coefficients with sqrt_gain equal
\* to the tangent of half the bandwidth (a2 is zero there, a0 is not)
C9_Witness ==
    /\ filt.active
    /\ filt.effect = "ParametricEQ"
    /\ filt.filterType = filterTypePeakingNotch
    /\ filt.sqrt_gain = TanHalfBw(filt.u, filt.qFactor)
    /\ filt.coefficients[5] = RZero
    /\ filt.a0 = RMul(RInt(2), filt.sqrt_gain)

-----------------------------------------------------------------------------
\* The envelope follower of WahWahAudioProcessor::processBlock

MaxEnvSteps == 3
\* prepareToPlay calls
WahMaxPrepares == 2
\* the input samples: the envelope rises toward 1, falls toward 1/2, or
\* meets an input equal to it
EnvInputs == {RInt(-1), Rat(1, 2)}
\* paramEnvelopeAttack and paramEnvelopeRelease, in units of
\* inverseSampleRate / ln 2: 0, and the times that give 1/2 and 1/4
EnvelopeTimes == {RZero, ROne, Rat(1, 2)}
\* the times the follower is constructed with
EnvelopeDefaults == {RZero, ROne}

RECURSIVE HalfToThe(_)
HalfToThe(n) == IF n = 0 THEN ROne ELSE RMul(Rat(1, 2), HalfToThe(n - 1))

\* WahWahAudioProcessor::calculateAttackOrRelease: pow (inverseE,
\* inverseSampleRate / value) is 1/2 to the power 1 / value in these units
CalculateAttackOrRelease(value) ==
    IF value = RZero THEN RZero
    ELSE HalfToThe(RFloor(RDiv(ROne, value)))

\* the envelope computed with the two coefficients exchanged
EnvelopeReleaseOnRise(envelope, absIn, attack, release) ==
    IF RLt(envelope, absIn)
    THEN RAdd(RMul(release, envelope), RMul(RSub(ROne, release), absIn))
    ELSE RAdd(RMul(attack, envelope), RMul(RSub(ROne, attack), absIn))

\* processBlock lines 129-132
Envelope(envelope, absIn, attack, release) ==
    IF RLt(envelope, absIn)
    THEN RAdd(RMul(attack, envelope), RMul(RSub(ROne, attack), absIn))
    ELSE RAdd(RMul(release, envelope), RMul(RSub(ROne, release), absIn))

\* one sample of one channel: lines 122-134
EnvSample(w, channel, in) ==
    LET absIn == RAbs(in)
        attack == CalculateAttackOrRelease(w.paramEnvelopeAttack)
        release == CalculateAttackOrRelease(w.paramEnvelopeRelease)
        envelope == Envelope(w.envelopes[channel], absIn, attack, release)
    IN  [w EXCEPT !.envelopes[channel] = envelope,
                  !.log[channel] = Append(@, [absIn |-> absIn,
                                              before |-> w.envelopes[channel],
                                              attack |-> attack,
                                              release |-> release,
                                              envelope |-> envelope])]

RECURSIVE EnvSamples(_, _, _, _)
EnvSamples(w, channel, samples, sample) ==
    IF sample > Len(samples) THEN w
    ELSE EnvSamples(EnvSample(w, channel, samples[sample]), channel, samples,
                    sample + 1)

RECURSIVE EnvChannels(_, _, _)
EnvChannels(w, block, channel) ==
    IF channel >= w.numChannels THEN w
    ELSE EnvChannels(EnvSamples(w, channel, block[channel], 1), block, channel + 1)

EnvOthers ==
    UNCHANGED <<stft, plug, chorus, vibrato, pingpong, panning, line, param, filt>>

WahConstructed(attackTime, releaseTime) ==
    [prepared |-> FALSE, numChannels |-> 1, changes |-> 0,
     prepares |-> 0, last |-> "constructor",
     paramEnvelopeAttack |-> attackTime, paramEnvelopeRelease |-> releaseTime,
     envelopes |-> ClearedBuffer(0),
     log |-> [ch \in 0 .. 1 |-> <<>>]]

\* envelopes.add (0.0f), count times
EnvelopesAdd(envelopes, count) ==
    [ch \in 0 .. Cardinality(DOMAIN envelopes) + count - 1 |->
        IF ch \in DOMAIN envelopes THEN envelopes[ch] ELSE RZero]

\* WahWahAudioProcessor::prepareToPlay: envelopes.add (0.0f) for every
\* input channel; the array is not cleared first
WahPrepareToPlay ==
    /\ EnvOthers
    /\ wah.prepares < WahMaxPrepares
    /\ \E channels \in ChannelCounts :
          wah' = [wah EXCEPT !.prepared = TRUE, !.numChannels = channels,
                             !.prepares = @ + 1, !.last = "prepareToPlay",
                             !.envelopes = EnvelopesAdd(@, channels)]

\* parameterChanged of paramEnvelopeAttack or paramEnvelopeRelease
WahParameterChanged ==
    /\ EnvOthers
    /\ wah.changes < MaxChanges
    /\ \E attackTime \in EnvelopeTimes, releaseTime \in EnvelopeTimes :
          /\ attackTime = wah.paramEnvelopeAttack
                \/ releaseTime = wah.paramEnvelopeRelease
          /\ wah' = [wah EXCEPT !.paramEnvelopeAttack = attackTime,
                                !.paramEnvelopeRelease = releaseTime,
                                !.changes = @ + 1]

\* WahWahAudioProcessor::processBlock
WahProcess ==
    /\ EnvOthers
    /\ wah.prepared
    /\ \E n \in 0 .. MaxBlock :
          /\ Len(wah.log[0]) + n <= MaxEnvSteps
          /\ \E block \in [0 .. wah.numChannels - 1 -> [1 .. n -> EnvInputs]] :
                wah' = [EnvChannels(wah, block, 0) EXCEPT !.last = "processBlock"]

EnvInit ==
    /\ wah \in {WahConstructed(a, r) : a \in EnvelopeDefaults, r \in EnvelopeDefaults}
    /\ stft = 0 /\ plug = 0 /\ chorus = 0 /\ vibrato = 0 /\ pingpong = 0
    /\ panning = 0 /\ line = 0 /\ param = 0 /\ filt = 0

EnvNext == WahPrepareToPlay \/ WahParameterChanged \/ WahProcess

SpecEnv == EnvInit /\ [][EnvNext]_vars

\* the steps of every channel
EnvEntries ==
    UNION {{wah.log[ch][k] : k \in 1 .. Len(wah.log[ch])} : ch \in 0 .. 1}

\* C10: every update computes c * env + (1 - c) * u, c the attack coefficient
\* where u is above the envelope and the release coefficient otherwise, both
\* in [0, 1); so a step moves the envelope toward u without crossing it, and
\* with coefficient 0 it lands on u
C10_StepResponse ==
    \A e \in EnvEntries :
        LET c == IF RLt(e.before, e.absIn) THEN e.attack ELSE e.release
        IN  /\ RLe(RZero, e.absIn)
            /\ RLe(RZero, c) /\ RLt(c, ROne)
            /\ e.envelope = RAdd(RMul(c, e.before), RMul(RSub(ROne, c), e.absIn))
            /\ RLe(e.before, e.absIn)
                  => RLe(e.before, e.envelope) /\ RLe(e.envelope, e.absIn)
            /\ RLe(e.absIn, e.before)
                  => RLe(e.absIn, e.envelope) /\ RLe(e.envelope, e.before)
            /\ c = RZero => e.envelope = e.absIn

\* with the input held at 1 (or -1) and attack coefficient 1/2, different
\* from the release coefficient, the envelope rose from 0 to 1/2 and then 3/4
C10_Witness ==
    /\ Len(wah.log[0]) >= 2
    /\ wah.log[0][1].absIn = ROne /\ wah.log[0][2].absIn = ROne
    /\ wah.log[0][1].attack = Rat(1, 2) /\ wah.log[0][2].attack = Rat(1, 2)
    /\ wah.log[0][1].release # Rat(1, 2)
    /\ wah.log[0][1].envelope = Rat(1, 2)
    /\ wah.log[0][2].envelope = Rat(3, 4)

-----------------------------------------------------------------------------
(* Construction and reconfiguration of the STFT of Robotization-           *)
(* Whisperization.  The three choice parameters are constructed in         *)
(* declaration order and each constructor runs its callback, so the first  *)
(* two callbacks read parameters that are not constructed yet.             *)

\* what an int or float member holds before anything is assigned to it
GarbageInts == {0, 3}
GarbageScales == {RZero, ROne}
\* what an unconstructed hop-size or window-type parameter may read as
GarbageOverlaps == {0, 2}
GarbageWindowTypes == {windowTypeHann, 9}

\* the choices offered (the code has nine FFT sizes and three hop sizes)
FftSizeChoices == {0, 1}
HopSizeChoices == {0, 1}
\* the default choices (fftSize512 and hopSize8 in the code, here the
\* choices that give FFT size 4 and overlap 2)
DefaultFftSizeChoice == 1
DefaultHopSizeChoice == 0
\* samples (over all channels) processed between two reconfigurations
ConfigMaxSamples == 3

\* value = (float)(1 << ((int)value + 5)) in the FFT-size callback, scaled
\* down from 32 .. 8192 to sizes whose window tables are rational
FftSizeOf(value) == 2 ^ (value + 1)
\* value = (float)(1 << ((int)value + 1)) in the hop-size callback
OverlapOf(value) == 2 ^ (value + 1)

\* STFT::STFT(): only numChannels is initialised
StftUninitialised(h, w, f) ==
    [numChannels |-> 1, fftSize |-> 0, overlap |-> 0, hopSize |-> h,
     inputBufferLength |-> 0, outputBufferLength |-> 0,
     inputBuffer |-> <<>>, outputBuffer |-> <<>>, fftWindow |-> <<>>,
     timeDomainBuffer |-> <<>>, frequencyDomainBuffer |-> <<>>,
     windowScaleFactor |-> f,
     inputBufferWritePosition |-> 0, outputBufferWritePosition |-> w,
     outputBufferReadPosition |-> 0, samplesSinceLastFFT |-> 0,
     currentInputBufferWritePosition |-> 0, currentOutputBufferWritePosition |-> 0,
     currentOutputBufferReadPosition |-> 0, currentSamplesSinceLastFFT |-> 0,
     inLog |-> <<>>, outLog |-> <<>>, frameLog |-> <<>>]

\* the three fields an overlap of 0 is said to leave alone
GuardedFields(s) ==
    [hopSize |-> s.hopSize,
     outputBufferWritePosition |-> s.outputBufferWritePosition,
     windowScaleFactor |-> s.windowScaleFactor]

\* a callback's body after it stored its own value: stft.updateParameters
\* with the three target values (before: the guarded fields at the call)
ConfigUpdate(p) ==
    /\ plug' = [p EXCEPT !.before = GuardedFields(stft), !.fresh = TRUE]
    /\ stft' = StftFromTargets(stft, p)

\* paramFftSize's constructor: updateValue (fftSize512) runs the callback
ConstructFftSize ==
    /\ StftOthers
    /\ plug.pc = "paramFftSize"
    /\ ConfigUpdate([plug EXCEPT !.paramFftSize = FftSizeOf(DefaultFftSizeChoice),
                                 !.pc = "paramHopSize"])

\* paramHopSize's constructor: updateValue (hopSize8)
ConstructHopSize ==
    /\ StftOthers
    /\ plug.pc = "paramHopSize"
    /\ ConfigUpdate([plug EXCEPT !.paramHopSize = OverlapOf(DefaultHopSizeChoice),
                                 !.pc = "paramWindowType"])

\* paramWindowType's constructor: updateValue (STFT::windowTypeHann)
ConstructWindowType ==
    /\ StftOthers
    /\ plug.pc = "paramWindowType"
    /\ ConfigUpdate([plug EXCEPT !.paramWindowType = windowTypeHann,
                                 !.pc = "constructed"])

\* parameterChanged on the FFT-size choice (PluginProcessor.cpp 46-54)
FftSizeChoice ==
    /\ StftOthers
    /\ plug.pc = "constructed"
    /\ \E value \in FftSizeChoices :
          /\ ValidConfig(FftSizeOf(value), plug.paramHopSize)
          /\ ConfigUpdate([plug EXCEPT !.paramFftSize = FftSizeOf(value)])

\* parameterChanged on the hop-size choice (PluginProcessor.cpp 56-64)
HopSizeChoice ==
    /\ StftOthers
    /\ plug.pc = "constructed"
    /\ \E value \in HopSizeChoices :
          /\ ValidConfig(plug.paramFftSize, OverlapOf(value))
          /\ ConfigUpdate([plug EXCEPT !.paramHopSize = OverlapOf(value)])

\* parameterChanged on the window-type choice (PluginProcessor.cpp 66-73)
WindowTypeChoice ==
    /\ StftOthers
    /\ plug.pc = "constructed"
    /\ \E value \in WindowTypes :
          ConfigUpdate([plug EXCEPT !.paramWindowType = value])

\* prepareToPlay (PluginProcessor.cpp 84-98)
ConfigPrepareToPlay ==
    /\ StftOthers
    /\ plug.pc = "constructed"
    /\ \E channels \in ChannelCounts :
          /\ plug' = [plug EXCEPT !.before = GuardedFields(stft), !.fresh = TRUE]
          /\ stft' = StftFromTargets(StftSetup(stft, channels), plug)

\* processBlock (PluginProcessor.cpp 104-122)
ConfigProcessBlock ==
    /\ StftOthers
    /\ plug.pc = "constructed"
    /\ \E n \in 1 .. MaxBlock :
          /\ stft.numChannels * (Len(stft.inLog[0]) + n) <= ConfigMaxSamples
          /\ \E block \in Blocks(stft.numChannels, n) :
                 stft' = StftProcessBlock(stft, block)
          /\ plug' = [plug EXCEPT !.fresh = FALSE]

\* the processor when its constructor starts on the parameters
ConfigInit ==
    /\ OthersIdle
    /\ \E h \in GarbageInts, w \in GarbageInts, f \in GarbageScales :
          stft = StftUninitialised(h, w, f)
    /\ \E o \in GarbageOverlaps, t \in GarbageWindowTypes :
          plug = [pc |-> "paramFftSize", paramFftSize |-> 0,
                  paramHopSize |-> o, paramWindowType |-> t,
                  before |-> GuardedFields(StftUninitialised(0, 0, RZero)),
                  fresh |-> FALSE]

ConfigNext ==
    \/ ConstructFftSize
    \/ ConstructHopSize
    \/ ConstructWindowType
    \/ FftSizeChoice
    \/ HopSizeChoice
    \/ WindowTypeChoice
    \/ ConfigPrepareToPlay
    \/ ConfigProcessBlock

SpecConfig ==
    /\ ConfigInit
    /\ [][ConfigNext]_vars

\* the window table updateWindow computes for the selected type
SelectedWindow ==
    [i \in 0 .. stft.fftSize - 1 |->
        WindowValue(plug.paramWindowType, i, stft.fftSize)]

\* C14: once the constructor has run, in every state between handlers,
\* hopSize = fftSize / overlap, both rings and the window table have fftSize
\* entries, the table is that of the selected window type, and
\* windowScaleFactor * overlap * (sum of the window) = fftSize (a window
\* whose entries are all 0, as the scaled-down sizes can give, has scale 0).
C14_ConfigurationConsistent ==
    plug.pc = "constructed" =>
        /\ stft.fftSize = plug.paramFftSize
        /\ stft.overlap = plug.paramHopSize
        /\ stft.overlap # 0
        /\ stft.hopSize * stft.overlap = stft.fftSize
        /\ stft.inputBufferLength = stft.fftSize
        /\ stft.outputBufferLength = stft.fftSize
        /\ \A ch \in StftChannelSet :
              /\ DOMAIN stft.inputBuffer[ch] = 0 .. stft.fftSize - 1
              /\ DOMAIN stft.outputBuffer[ch] = 0 .. stft.fftSize - 1
        /\ DOMAIN stft.inputBuffer = StftChannelSet
        /\ DOMAIN stft.outputBuffer = StftChannelSet
        /\ stft.fftWindow = SelectedWindow
        /\ LET windowSum == RSum(stft.fftWindow, 0, stft.fftSize - 1)
           IN  IF windowSum = RZero THEN stft.windowScaleFactor = RZero
               ELSE RMul(RMul(stft.windowScaleFactor, RInt(stft.overlap)), windowSum)
                        = RInt(stft.fftSize)

\* samples were processed after a change to FFT size 4, overlap 4, Hamming
C14_Witness ==
    /\ plug.pc = "constructed"
    /\ ~plug.fresh
    /\ stft.fftSize = 4 /\ stft.overlap = 4 /\ stft.hopSize = 1
    /\ plug.paramWindowType = windowTypeHamming
    /\ stft.windowScaleFactor = Rat(10, 17)
    /\ Len(stft.inLog[0]) > 1

\* the state is the one a reconfiguration with overlap 0 has just produced
OverlapZeroReconfigured == plug.fresh /\ stft.overlap = 0

\* C15 as stated: after a reconfiguration with overlap 0, hopSize,
\* outputBufferWritePosition and windowScaleFactor have the values they had
\* before the call.
C15_PriorStateKept ==
    OverlapZeroReconfigured => GuardedFields(stft) = plug.before

\* C15 amended: after a reconfiguration with overlap 0, hopSize has the
\* value it had before the call, while outputBufferWritePosition is 0 (reset
\* by updateFftSize) and windowScaleFactor is 0 (assigned by updateWindow);
\* the call divides by nothing.
C15_OnlyHopSizeKept ==
    OverlapZeroReconfigured =>
        /\ stft.hopSize = plug.before.hopSize
        /\ stft.outputBufferWritePosition = 0
        /\ stft.windowScaleFactor = RZero

\* an overlap of 0 was passed while the write position and the scale factor
\* were not 0
C15_Witness ==
    /\ OverlapZeroReconfigured
    /\ plug.before.outputBufferWritePosition # 0
    /\ plug.before.windowScaleFactor # RZero
    /\ stft.hopSize = 3

-----------------------------------------------------------------------------
(* The cursors of STFT::processBlock and ChorusAudioProcessor::processBlock *)
(* over a run of blocks: one of the two engines is prepared and fed blocks. *)

\* samples per channel fed to the engine after it was prepared
ChannelsMaxSamples == 4

\* the saved cursors of the STFT
StftCursors(s) ==
    [inputBufferWritePosition |-> s.inputBufferWritePosition,
     outputBufferWritePosition |-> s.outputBufferWritePosition,
     outputBufferReadPosition |-> s.outputBufferReadPosition,
     samplesSinceLastFFT |-> s.samplesSinceLastFFT]

\* the saved cursors of the Chorus
ChorusCursors(c) ==
    [delayWritePosition |-> c.delayWritePosition, lfoPhase |-> c.lfoPhase]

\* prepareToPlay of a plugin built on the STFT, at one of the configurations
ChannelsStftPrepare ==
    /\ plug.engine = "stft"
    /\ \E channels \in ChannelCounts, f \in FftSizes, o \in Overlaps \ {0},
          w \in {windowTypeRectangular, windowTypeHann} :
          /\ ValidConfig(f, o)
          /\ stft' = StftUpdateParameters(StftSetup(stft, channels), f, o, w)
    /\ plug' = [plug EXCEPT !.start = StftCursors(stft'), !.n = 0, !.blocks = 0]
    /\ UNCHANGED <<chorus, vibrato, pingpong, panning, line, param, filt, wah>>

\* STFT::processBlock on a block of n samples
ChannelsStftBlock ==
    /\ plug.engine = "stft"
    /\ \E n \in 0 .. MaxBlock :
          /\ Len(stft.inLog[0]) + n <= ChannelsMaxSamples
          /\ \E block \in Blocks(stft.numChannels, n) :
                stft' = StftProcessBlock(stft, block)
          /\ plug' = [plug EXCEPT !.start = StftCursors(stft), !.n = n,
                                  !.blocks = IF @ < 2 THEN @ + 1 ELSE @]
    /\ UNCHANGED <<chorus, vibrato, pingpong, panning, line, param, filt, wah>>

\* ChorusAudioProcessor::prepareToPlay
ChannelsChorusPrepare ==
    /\ plug.engine = "chorus"
    /\ \E sampleRate \in ChorusSampleRates, channels \in ChannelCounts :
          chorus' = ChorusPrepare(chorus, sampleRate, channels)
    /\ plug' = [plug EXCEPT !.start = ChorusCursors(chorus'), !.n = 0, !.blocks = 0]
    /\ UNCHANGED <<stft, vibrato, pingpong, panning, line, param, filt, wah>>

\* ChorusAudioProcessor::processBlock on a block of n samples
ChannelsChorusBlock ==
    /\ plug.engine = "chorus" /\ chorus.prepared
    /\ \E n \in 0 .. MaxBlock :
          /\ Len(chorus.log[0]) + n <= ChannelsMaxSamples
          /\ \E block \in Blocks(chorus.numChannels, n) :
                chorus' = ChorusProcessBlock(chorus, block)
          /\ plug' = [plug EXCEPT !.start = ChorusCursors(chorus), !.n = n,
                                  !.blocks = IF @ < 2 THEN @ + 1 ELSE @]
    /\ UNCHANGED <<stft, vibrato, pingpong, panning, line, param, filt, wah>>

\* one of the two processors has been constructed
ChannelsInit ==
    /\ vibrato = 0 /\ pingpong = 0 /\ panning = 0
    /\ line = 0 /\ param = 0 /\ filt = 0 /\ wah = 0
    /\ \/ /\ stft = StftConstructed
          /\ chorus = Absent
          /\ plug = [engine |-> "stft", start |-> StftCursors(StftConstructed),
                     n |-> 0, blocks |-> 0]
       \/ /\ stft = Absent
          /\ chorus \in {ChorusConstructed(d, w, f, wf, interpolationLinear, 2) :
                            d \in ChorusDelays, w \in ChorusWidths,
                            f \in ChorusFrequencies, wf \in {waveformTriangle}}
          /\ plug = [engine |-> "chorus",
                     start |-> [delayWritePosition |-> 0, lfoPhase |-> RZero],
                     n |-> 0, blocks |-> 0]

ChannelsNext ==
    \/ ChannelsStftPrepare
    \/ ChannelsStftBlock
    \/ ChannelsChorusPrepare
    \/ ChannelsChorusBlock

SpecChannels ==
    /\ ChannelsInit
    /\ [][ChannelsNext]_vars

\* a ring cursor after n sample steps
RingAdvanced(position, n, length) == (position + n) % length

\* the LFO phase after n sample steps of currentFrequency / sampleRate each
RECURSIVE PhaseAdvanced(_, _, _, _)
PhaseAdvanced(phase, n, frequency, sampleRate) ==
    IF n = 0 THEN phase
    ELSE LET next == RAdd(PhaseAdvanced(phase, n - 1, frequency, sampleRate),
                          RDiv(frequency, sampleRate))
         IN  IF RLe(ROne, next) THEN RSub(next, ROne) ELSE next

\* the STFT's saved cursors are the block-start cursors after plug.n steps
StftCursorsAdvanced ==
    LET b == plug.start
        frames == (b.samplesSinceLastFFT + plug.n) \div stft.hopSize
    IN  /\ stft.inputBufferWritePosition =
              RingAdvanced(b.inputBufferWritePosition, plug.n, stft.inputBufferLength)
        /\ stft.outputBufferReadPosition =
              RingAdvanced(b.outputBufferReadPosition, plug.n, stft.outputBufferLength)
        /\ stft.samplesSinceLastFFT =
              (b.samplesSinceLastFFT + plug.n) % stft.hopSize
        /\ stft.outputBufferWritePosition =
              RingAdvanced(b.outputBufferWritePosition, frames * stft.hopSize,
                           stft.outputBufferLength)

\* the Chorus's saved cursors are the block-start cursors after plug.n steps
ChorusCursorsAdvanced ==
    /\ chorus.delayWritePosition =
          RingAdvanced(plug.start.delayWritePosition, plug.n,
                       chorus.delayBufferSamples)
    /\ chorus.lfoPhase =
          PhaseAdvanced(plug.start.lfoPhase, plug.n, chorus.paramFrequency,
                        chorus.sampleRate)

\* every channel went through the same cursors: the same frames fired and
\* the same slots were written, sample by sample
SameCursorSequence ==
    IF plug.engine = "stft"
    THEN \A ch \in DOMAIN stft.frameLog :
            /\ stft.frameLog[ch] = stft.frameLog[0]
            /\ Len(stft.outLog[ch]) = Len(stft.outLog[0])
    ELSE \A ch \in DOMAIN chorus.log :
            /\ Len(chorus.log[ch]) = Len(chorus.log[0])
            /\ \A i \in 1 .. Len(chorus.log[ch]) :
                  chorus.log[ch][i].wp = chorus.log[0][i].wp

\* C19: after a processBlock call on n samples, with one channel or two, the
\* saved cursors (STFT: input write, output read, output write, samples
\* since the last frame; Chorus: delay write position, LFO phase) are the
\* block-start cursors advanced by exactly n sample steps, and every channel
\* went through the same cursor sequence.
C19_CursorsAdvanceOncePerSample ==
    /\ SameCursorSequence
    /\ plug.engine = "stft" => StftCursorsAdvanced
    /\ plug.engine = "chorus" /\ chorus.prepared => ChorusCursorsAdvanced

\* a second two-sample block on two channels has moved the STFT's cursors
\* from a block start that was not the origin
C19_Witness ==
    /\ plug.engine = "stft"
    /\ stft.numChannels = 2 /\ plug.n = 2 /\ plug.blocks = 2
    /\ plug.start.inputBufferWritePosition = 1
    /\ stft.inputBufferWritePosition = 3
    /\ stft.hopSize = 2 /\ stft.outputBufferWritePosition = 0

-----------------------------------------------------------------------------
(* Interpolated reads at whole read positions (Chorus's interpolation      *)
(* switch and DelayLine::readSample), on the buffers the delay plugins     *)
(* reach.                                                                  *)

\* every interpolation of the switch, read at the whole position p of one
\* channel's buffer, returns the sample stored in slot p
SwitchExactAt(delayData, delayBufferSamples) ==
    \A p \in 0 .. delayBufferSamples - 1 :
        \A interpolation \in Interpolations :
            Interpolate(delayData, delayBufferSamples, RInt(p), interpolation)
                = delayData[p]

\* DelayLine::readSample with a whole delay d returns the sample stored d
\* slots behind the last one written
LineExactAt(dl) ==
    \A d \in 0 .. dl.delayBufferSamples - 1 :
        DelayLineReadSample(dl, RInt(d)) =
            dl.delayBuffer[(dl.delayWritePosition - 1 - d + dl.delayBufferSamples)
                               % dl.delayBufferSamples]

\* C12: at a read position with fractional part 0, linear interpolation
\* returns exactly the sample stored at that position, as nearest-neighbour
\* and cubic interpolation do, for every buffer content the plugins reach
\* and every write position; so does DelayLine::readSample.
C12_ExactOnWholeDelays ==
    /\ chorus.live /\ chorus.prepared =>
          \A ch \in DOMAIN chorus.delayBuffer :
              SwitchExactAt(chorus.delayBuffer[ch], chorus.delayBufferSamples)
    /\ panning.live /\ panning.prepared =>
          LineExactAt(panning.delayLineL) /\ LineExactAt(panning.delayLineR)

\* a DelayLine was read one whole sample back, after a 1 and then a 0 were
\* written: the linear interpolation gave the 1, nothing of the 0
C12_Witness ==
    /\ panning.live /\ panning.prepared
    /\ Len(panning.log) >= 2
    /\ panning.log[1].in = ROne
    /\ LET e == panning.log[2]
       IN  /\ e.in = RZero
           /\ e.delayTimeL = RInt(1)
           /\ e.readL = ROne

-----------------------------------------------------------------------------
(* PitchShiftAudioProcessor::princArg.  Phases are rational multiples of   *)
(* pi: the rational q stands for the phase q * pi.                         *)

\* the phases tried are the multiples of pi / 8 up to this many eighths
PrincMaxEighths == 64
PrincPhases == {Rat(k, 8) : k \in -PrincMaxEighths .. PrincMaxEighths}

\* trunc: the integer part of a rational, rounded toward zero
RTrunc(a) == IF a[1] >= 0 THEN a[1] \div a[2] ELSE -((-a[1]) \div a[2])

\* fmod (x, y) of the C library: x - trunc (x / y) * y, which has the sign
\* of x
CFmod(x, y) == RSub(x, RMul(RInt(RTrunc(RDiv(x, y))), y))

\* PitchShiftAudioProcessor::princArg
PrincArg(phase) ==
    IF RLe(RZero, phase)
    THEN RSub(CFmod(RAdd(phase, ROne), RInt(2)), ROne)
    ELSE RAdd(CFmod(RAdd(phase, ROne), RInt(-2)), ROne)

PrincOthers ==
    UNCHANGED <<stft, plug, chorus, vibrato, pingpong, panning, line, param, wah>>

\* one call of princArg
PrincArgCall ==
    /\ PrincOthers
    /\ \E phase \in PrincPhases :
          filt' = [phase |-> phase, result |-> PrincArg(phase), calls |-> 1]

PrincInit ==
    /\ stft = 0 /\ plug = 0 /\ chorus = 0 /\ vibrato = 0 /\ pingpong = 0
    /\ panning = 0 /\ line = 0 /\ param = 0 /\ wah = 0
    /\ filt = [phase |-> RZero, result |-> RZero, calls |-> 0]

PrincNext == PrincArgCall

SpecPrinc ==
    /\ PrincInit
    /\ [][PrincNext]_vars

\* a and b differ by a whole multiple of 2 pi
CongruentModTwoPi(a, b) ==
    LET d == RSub(a, b) IN d[2] = 1 /\ d[1] % 2 = 0

\* C17 as stated: princArg (phase) lies in (-pi, pi] and is congruent to
\* phase modulo 2 pi, for positive, zero and negative phases.
C17_PrincipalValue ==
    filt.calls > 0 =>
        /\ RLt(RInt(-1), filt.result) /\ RLe(filt.result, ROne)
        /\ CongruentModTwoPi(filt.result, filt.phase)

\* princArg (-pi / 2) has returned 3 pi / 2
C17_Witness ==
    /\ filt.calls > 0
    /\ filt.phase = Rat(-1, 2)
    /\ filt.result = Rat(3, 2)

-----------------------------------------------------------------------------
(* RobotizationWhisperization::modification (PluginProcessor.h 171-205) on *)
(* one frame.  rand() is a free choice; the phases tried are pi / 2 and    *)
(* pi, and the frames tried are those whose bin magnitudes are rational.   *)

effectPassThrough == 0
effectRobotization == 1
effectWhisperization == 2
Effects == {effectPassThrough, effectRobotization, effectWhisperization}

\* (float)rand() / (float)RAND_MAX, as a fraction of a turn
RandomTurns == {Rat(1, 4), Rat(1, 2)}

\* whether the natural number n is a square
IsSquare(n) == \E r \in 0 .. n : r * r = n
ISqrt(n) == CHOOSE r \in 0 .. n : r * r = n

\* |z|^2
CNorm(z) == RAdd(RMul(z[1], z[1]), RMul(z[2], z[2]))
\* whether abs (z) is rational
HasRationalAbs(z) == IsSquare(CNorm(z)[1]) /\ IsSquare(CNorm(z)[2])
\* abs (z)
CAbs(z) == Rat(ISqrt(CNorm(z)[1]), ISqrt(CNorm(z)[2]))

\* (magnitude * cosf (phase), magnitude * sinf (phase)), phase = 2 pi turn
Polar(magnitude, turn) ==
    <<RMul(magnitude, CosTwoPi(turn[1], turn[2])),
      RMul(magnitude, SinTwoPi(turn[1], turn[2]))>>

\* the whisperization loop: bins 0 .. fftSize / 2 get their magnitude and
\* the phase drawn for them, bins fftSize - index (0 < index < fftSize / 2)
\* the same magnitude and the negated phase
Whisperized(spectrum, fftSize, turns) ==
    [index \in 0 .. fftSize - 1 |->
        IF index <= fftSize \div 2
        THEN Polar(CAbs(spectrum[index]), turns[index])
        ELSE CConj(Polar(CAbs(spectrum[fftSize - index]), turns[fftSize - index]))]

\* the robotization loop: every bin keeps its magnitude and gets phase 0
Robotized(spectrum, fftSize) ==
    [index \in 0 .. fftSize - 1 |-> <<CAbs(spectrum[index]), RZero>>]

\* RobotizationWhisperization::modification
RoboModification(s, effect, turns) ==
    LET spectrum == FftPerform(s.timeDomainBuffer, s.fftSize, FALSE)
        changed == CASE effect = effectRobotization -> Robotized(spectrum, s.fftSize)
                     [] effect = effectWhisperization ->
                            Whisperized(spectrum, s.fftSize, turns)
                     [] OTHER -> spectrum
    IN  [s EXCEPT !.frequencyDomainBuffer = changed,
                  !.timeDomainBuffer = FftPerform(changed, s.fftSize, TRUE)]

\* the frame analysis hands over for the input samples `input`
RoboFrame(s, input) ==
    [index \in 0 .. s.fftSize - 1 |->
        <<RMul(s.fftWindow[index], RInt(input[index])), RZero>>]

\* whether every bin of the frame has a rational magnitude
RationalFrame(frame, fftSize) ==
    LET spectrum == FftPerform(frame, fftSize, FALSE)
    IN  \A k \in 0 .. fftSize - 1 : HasRationalAbs(spectrum[k])

RoboOthers == UNCHANGED <<chorus, vibrato, pingpong, panning, line, param, filt, wah>>

\* the Effect parameter changes
RoboEffectChanged ==
    /\ RoboOthers
    /\ \E effect \in Effects : plug' = [plug EXCEPT !.paramEffect = effect]
    /\ UNCHANGED stft

\* the FFT-size and window-type callbacks
RoboFftSizeChanged ==
    /\ RoboOthers
    /\ \E f \in FftSizes, w \in {windowTypeRectangular, windowTypeHann} :
          stft' = StftUpdateParameters(stft, f, stft.overlap, w)
    /\ plug' = [plug EXCEPT !.modified = -1]

\* modification() on the frame analysis has left in timeDomainBuffer
RoboModify ==
    /\ RoboOthers
    /\ \E input \in [0 .. stft.fftSize - 1 -> SampleValues],
          turns \in [0 .. stft.fftSize \div 2 -> RandomTurns] :
          /\ RationalFrame(RoboFrame(stft, input), stft.fftSize)
          /\ stft' = RoboModification(
                         [stft EXCEPT !.timeDomainBuffer = RoboFrame(stft, input)],
                         plug.paramEffect, turns)
    /\ plug' = [plug EXCEPT !.modified = plug.paramEffect]

RoboInit ==
    /\ OthersIdle
    /\ stft = StftConstructed
    /\ plug = [paramEffect |-> effectPassThrough, modified |-> -1]

RoboNext ==
    \/ RoboEffectChanged
    \/ RoboFftSizeChanged
    \/ RoboModify

SpecRobo ==
    /\ RoboInit
    /\ [][RoboNext]_vars

\* C18 as stated: after the whisperization modification, whatever phases
\* were drawn, bin (fftSize - k) mod fftSize is the complex conjugate of bin
\* k for every k, so bins 0 and fftSize / 2 are real.
C18_Hermitian ==
    plug.modified = effectWhisperization =>
        \A k \in 0 .. stft.fftSize - 1 :
            stft.frequencyDomainBuffer[(stft.fftSize - k) % stft.fftSize]
                = CConj(stft.frequencyDomainBuffer[k])

\* whisperization has left bin 0 purely imaginary, and the frame handed to
\* synthesis is no longer real
C18_Witness ==
    /\ plug.modified = effectWhisperization
    /\ stft.fftSize = 4
    /\ stft.frequencyDomainBuffer[0] = <<RZero, ROne>>
    /\ stft.frequencyDomainBuffer[3] = CConj(stft.frequencyDomainBuffer[1])
    /\ stft.timeDomainBuffer[0][2] # RZero

-----------------------------------------------------------------------------
(* The filter banks of the Phaser and of the Parametric EQ.  What a filter *)
(* instance remembers is made of the samples it was given; the model keeps *)
(* of that history the channels the samples came from.                     *)

\* paramNumFilters: the items "2", "4", "6", "8", "10" and the default index
NumFiltersItems == <<2, 4, 6, 8, 10>>
DefaultNumFiltersItem == 1

\* blocks are counted up to this many after prepareToPlay
OwnerMaxBlocks == 3

\* paramNumFilters.callback: items[(int) value].getFloatValue()
NumFiltersOf(value) == NumFiltersItems[value + 1]

\* filters.add (new Filter()), count times
NewFilters(count) == [i \in 0 .. count - 1 |-> {}]

\* the inner loops of PhaserAudioProcessor::processBlock for all channels:
\* filters[channel * paramNumFilters.getTargetValue() + i] processes the
\* samples of the channel, for i below paramNumFilters.getTargetValue()
PhaserFiltered(p) ==
    [f \in DOMAIN p.filters |->
        p.filters[f] \cup
            {channel \in 0 .. p.numChannels - 1 :
                \E i \in 0 .. p.paramNumFilters - 1 :
                    f = channel * p.paramNumFilters + i}]

\* the channel loop of ParametricEQAudioProcessor::processBlock:
\* filters[channel]->processSamples (channelData, numSamples)
EqFiltered(e) ==
    [f \in DOMAIN e.filters |->
        e.filters[f] \cup {channel \in 0 .. e.numChannels - 1 : f = channel}]

OwnerOthers ==
    UNCHANGED <<stft, plug, chorus, vibrato, pingpong, panning, line, param, wah>>

\* PhaserAudioProcessor::prepareToPlay
PhaserPrepareToPlay ==
    /\ OwnerOthers
    /\ \E channels \in ChannelCounts :
          LET numFiltersPerChannel == NumFiltersOf(Len(NumFiltersItems) - 1)
          IN  filt' = [filt EXCEPT
                  !.phaser.prepared = TRUE,
                  !.phaser.numChannels = channels,
                  !.phaser.numFiltersPerChannel = numFiltersPerChannel,
                  !.phaser.filters = NewFilters(channels * numFiltersPerChannel),
                  !.phaser.blocks = 0]

\* the number-of-filters parameter is changed between two blocks
PhaserNumFiltersChanged ==
    /\ OwnerOthers
    /\ \E value \in 0 .. Len(NumFiltersItems) - 1 :
          /\ NumFiltersOf(value) # filt.phaser.paramNumFilters
          /\ filt' = [filt EXCEPT !.phaser.paramNumFilters = NumFiltersOf(value)]

\* PhaserAudioProcessor::processBlock on a block of at least one sample
PhaserProcessBlock ==
    /\ OwnerOthers
    /\ filt.phaser.prepared
    /\ filt' = [filt EXCEPT
            !.phaser.filters = PhaserFiltered(filt.phaser),
            !.phaser.blocks = IF @ < OwnerMaxBlocks THEN @ + 1 ELSE @]

\* ParametricEQAudioProcessor::prepareToPlay
EqPrepareToPlay ==
    /\ OwnerOthers
    /\ \E channels \in ChannelCounts :
          filt' = [filt EXCEPT
              !.eq.prepared = TRUE,
              !.eq.numChannels = channels,
              !.eq.filters = NewFilters(channels),
              !.eq.blocks = 0]

\* ParametricEQAudioProcessor::processBlock on a block of at least one sample
EqProcessBlock ==
    /\ OwnerOthers
    /\ filt.eq.prepared
    /\ filt' = [filt EXCEPT
            !.eq.filters = EqFiltered(filt.eq),
            !.eq.blocks = IF @ < OwnerMaxBlocks THEN @ + 1 ELSE @]

OwnerInit ==
    /\ stft = 0 /\ plug = 0 /\ chorus = 0 /\ vibrato = 0 /\ pingpong = 0
    /\ panning = 0 /\ line = 0 /\ param = 0 /\ wah = 0
    /\ filt = [phaser |-> [prepared |-> FALSE, numChannels |-> 0,
                           numFiltersPerChannel |-> 0,
                           paramNumFilters |-> NumFiltersOf(DefaultNumFiltersItem),
                           filters |-> NewFilters(0), blocks |-> 0],
               eq |-> [prepared |-> FALSE, numChannels |-> 0,
                       filters |-> NewFilters(0), blocks |-> 0]]

OwnerNext ==
    \/ PhaserPrepareToPlay
    \/ PhaserNumFiltersChanged
    \/ PhaserProcessBlock
    \/ EqPrepareToPlay
    \/ EqProcessBlock

SpecOwner ==
    /\ OwnerInit
    /\ [][OwnerNext]_vars

\* C20 as stated: after prepareToPlay no filter instance of the Phaser or of
\* the Parametric EQ is ever given samples of two different channels,
\* whatever blocks and parameter changes follow.
C20_OneChannelPerFilter ==
    /\ \A f \in DOMAIN filt.phaser.filters :
          Cardinality(filt.phaser.filters[f]) <= 1
    /\ \A f \in DOMAIN filt.eq.filters :
          Cardinality(filt.eq.filters[f]) <= 1

\* two channels, a block with 4 filters and then a block with 6: filter 4
\* was the first filter of channel 1 and is now the fifth of channel 0
C20_Witness ==
    /\ filt.phaser.prepared
    /\ filt.phaser.numChannels = 2
    /\ filt.phaser.paramNumFilters = 6
    /\ filt.phaser.blocks = 2
    /\ filt.phaser.filters[4] = {0, 1}
    /\ filt.phaser.filters[3] = {0}
    /\ filt.phaser.filters[6] = {1}

-----------------------------------------------------------------------------
(* PitchShiftAudioProcessor (Pitch Shift/Source/PluginProcessor.cpp), run  *)
(* with one input channel next to an STFT of STFT.h that has the same FFT  *)
(* size, hop size and window and is fed the same samples.                  *)
(*                                                                         *)
(* Phases are rational multiples of pi, as in princArg above.  The window  *)
(* tables used have one value c in all their non-zero entries, and the two *)
(* frame buffers between the analysis and the resampling hold their        *)
(* numbers in units of sqrt (c): sqrtf (window) is then 0 or 1 there, and  *)
(* the second sqrtf, at the resampling, turns the unit into the factor c.  *)
(* The input streams tried have no two non-zero samples in a row, which    *)
(* keeps every bin of every frame on the real or the imaginary axis, where *)
(* abs and arg are exact.                                                  *)

\* the Pitch Shift window choices in the order of its enum (Bartlett, Hann,
\* Hamming), as rows of WindowValue
PitchWindowTypes == <<windowTypeBartlett, windowTypeHann, windowTypeHamming>>

\* the choices tried: the FFT size, the overlap factors and the windows
\* whose non-zero entries are all equal at that size
PitchFftSizes == {4}
PitchOverlaps == {2, 4}
PitchWindowChoices == {1}
\* the shift parameter in semitones
PitchSemitones == {0, 12}
\* samples processed between two reconfigurations
PitchMaxSamples == 5
\* shift changes and repeated prepareToPlay calls in one run
PitchMaxEvents == 2
\* the same two limits for the runs that take the output ring round
DrainMaxSamples == 9
DrainMaxEvents == 1
\* and the most non-zero input samples of such a run
DrainMaxOnes == 1
\* the sample rate handed to prepareToPlay
PitchSampleRate == RInt(2000)

\* the callback of paramShift: powf (2, value / 12)
PitchShiftOf(value) ==
    CASE value = -12 -> Rat(1, 2)
      [] value = 0 -> ROne
      [] value = 12 -> RInt(2)

\* roundf for a >= 0: halves go away from zero
RRound(a) == RFloor(RAdd(a, Rat(1, 2)))

\* ratio = roundf (shift * hopSize) / hopSize
PitchRatio(shift, hopSize) ==
    RDiv(RInt(RRound(RMul(shift, RInt(hopSize)))), RInt(hopSize))

\* resampledLength = floorf (fftSize / ratio)
ResampledLength(fftSize, ratio) == RFloor(RDiv(RInt(fftSize), ratio))

\* the resampling index map: x = index * fftSize / resampledLength,
\* ix = floorf (x), dx = x - ix
ResampleIndex(index, fftSize, resampledLength) ==
    LET x == Rat(index * fftSize, resampledLength)
    IN  [ix |-> RFloor(x), dx |-> RSub(x, RInt(RFloor(x)))]

\* PitchShiftAudioProcessor::updateWindow for a table of windowLength entries
PitchWindow(windowType, windowLength) ==
    [sample \in 0 .. windowLength - 1 |->
        WindowValue(PitchWindowTypes[windowType + 1], sample, windowLength)]

\* the value of the non-zero entries of a window table (0 if it has none)
WindowUnit(window) ==
    IF \E i \in DOMAIN window : window[i] # RZero
    THEN window[CHOOSE i \in DOMAIN window : window[i] # RZero]
    ELSE RZero

\* sqrtf (w) in units of sqrt (c), for w = 0 or w = c
SqrtInUnits(w) == IF w = RZero THEN RZero ELSE ROne

\* omega[index] = 2 pi index / fftSize, in units of pi
Omega(index, fftSize) == Rat(2 * index, fftSize)

\* arg (z) in units of pi, for z on an axis (atan2 (0, 0) is 0)
Arg(z) ==
    CASE z[2] = RZero /\ RLe(RZero, z[1]) -> RZero
      [] z[2] = RZero /\ RLt(z[1], RZero) -> ROne
      [] z[1] = RZero /\ RLt(RZero, z[2]) -> Rat(1, 2)
      [] z[1] = RZero /\ RLt(z[2], RZero) -> Rat(-1, 2)

\* a phase vocoder that forgets the nominal advance omega * hopSize
PitchNewPhaseNoAdvance(phase, inputPhase, outputPhase, omegaHop, ratio) ==
    LET phaseDeviation == RSub(RSub(phase, inputPhase), omegaHop)
        deltaPhi == PrincArg(phaseDeviation)
    IN  PrincArg(RAdd(outputPhase, RMul(deltaPhi, ratio)))

\* the phase vocoder of one bin (lines 188-190): the new output phase
PitchNewPhase(phase, inputPhase, outputPhase, omegaHop, ratio) ==
    LET phaseDeviation == RSub(RSub(phase, inputPhase), omegaHop)
        deltaPhi == RAdd(omegaHop, PrincArg(phaseDeviation))
    IN  PrincArg(RAdd(outputPhase, RMul(deltaPhi, ratio)))

\* PitchShiftAudioProcessor::updateFftSize (one input channel)
PitchUpdateFftSize(p) ==
    LET newFftSize == p.paramFftSize
        maxRatio == PitchShiftOf(-12)
        length == RFloor(RDiv(RInt(newFftSize), maxRatio))
    IN  [p EXCEPT !.fftSize = newFftSize,
                  !.inputBufferLength = newFftSize,
                  !.inputBufferWritePosition = 0,
                  !.inputBuffer = [i \in 0 .. newFftSize - 1 |-> RZero],
                  !.outputBufferLength = length,
                  !.outputBufferWritePosition = 0,
                  !.outputBufferReadPosition = 0,
                  !.outputBuffer = [i \in 0 .. length - 1 |-> RZero],
                  !.fftWindow = [i \in 0 .. newFftSize - 1 |-> RZero],
                  !.samplesSinceLastFFT = 0,
                  !.inputPhase = [i \in 0 .. length - 1 |-> RZero],
                  !.outputPhase = [i \in 0 .. length - 1 |-> RZero]]

\* PitchShiftAudioProcessor::updateHopSize
PitchUpdateHopSize(p) ==
    IF p.paramHopSize # 0
    THEN [p EXCEPT !.overlap = p.paramHopSize,
                   !.hopSize = p.fftSize \div p.paramHopSize,
                   !.outputBufferWritePosition =
                        (p.fftSize \div p.paramHopSize) % p.outputBufferLength]
    ELSE [p EXCEPT !.overlap = p.paramHopSize]

\* PitchShiftAudioProcessor::updateAnalysisWindow
PitchUpdateAnalysisWindow(p) ==
    [p EXCEPT !.fftWindow = PitchWindow(p.paramWindowType, p.fftSize)]

\* PitchShiftAudioProcessor::updateWindowScaleFactor
PitchUpdateWindowScaleFactor(p) ==
    LET windowSum == RSum(p.fftWindow, 0, p.fftSize - 1)
    IN  [p EXCEPT !.windowScaleFactor =
            IF p.overlap # 0 /\ windowSum # RZero
            THEN RMul(RDiv(RDiv(ROne, RInt(p.overlap)), windowSum), RInt(p.fftSize))
            ELSE RZero]

\* what the three choice callbacks do after setValue; the observed streams
\* start again
PitchUpdated(p) ==
    [PitchUpdateWindowScaleFactor(
        PitchUpdateAnalysisWindow(PitchUpdateHopSize(PitchUpdateFftSize(p))))
     EXCEPT !.outLog = <<>>, !.frames = <<>>, !.ratios = {},
            !.changed = FALSE]
\* Then (value), with the value computed once before it is used
Having(value, Then(_)) == CHOOSE r \in {Then(v) : v \in {value}} : TRUE

\* the overlap-add loop (lines 214-221) from frame index `index` on
RECURSIVE PitchOverlapAdd(_, _, _, _, _)
PitchOverlapAdd(ring, outputBufferLength, values, outputBufferIndex, index) ==
    IF index >= Len(values) THEN ring
    ELSE PitchOverlapAdd(
            [ring EXCEPT ![outputBufferIndex] = RAdd(@, values[index + 1])],
            outputBufferLength, values,
            IF outputBufferIndex + 1 >= outputBufferLength
               THEN 0 ELSE outputBufferIndex + 1,
            index + 1)

\* the windowed frame handed to the forward transform (lines 164-171)
PitchAnalysis(p) ==
    [index \in 0 .. p.fftSize - 1 |->
        <<RMul(SqrtInUnits(p.fftWindow[index]),
               p.inputBuffer[(p.currentInputBufferWritePosition + index)
                             % p.inputBufferLength]),
          RZero>>]

\* whether this frame clears the phase histories (lines 177-183)
PitchResets(p, b) ==
    /\ b.shift = p.paramShift.target
    /\ (p.paramShift.countdown > 0 \/ p.needToResetPhases)

\* the phase histories the bin loop starts from
PitchHistory(p, b, history) ==
    IF PitchResets(p, b) THEN [i \in DOMAIN history |-> RZero] ELSE history

\* the resampling loop (lines 200-209) and the scaling of the overlap-add
\* loop (line 216): what the frame adds to the output ring
PitchResampled(p, b, resynthesised) ==
    [index \in 1 .. b.resampledLength |->
        LET at == ResampleIndex(index - 1, p.fftSize, b.resampledLength)
            sample1 == resynthesised[at.ix][1]
            sample2 == resynthesised[(at.ix + 1) % p.fftSize][1]
        IN  IF b.synthesisWindow[index - 1] = RZero THEN RZero
            ELSE RMul(RMul(RAdd(sample1, RMul(at.dx, RSub(sample2, sample1))),
                           WindowUnit(p.fftWindow)),
                      p.windowScaleFactor)]

\* the end of the frame: the overlap-add, the write cursor, the histories
PitchSynthesis(p, b, inputPhase, outputPhase, phase, newPhase, values) ==
    [p EXCEPT
        !.needToResetPhases =
            IF PitchResets(p, b) THEN FALSE
            ELSE p.paramShift.countdown > 0 \/ p.needToResetPhases,
        !.pendingFrom =
            IF PitchResets(p, b) THEN "none"
            ELSE IF p.paramShift.countdown > 0 THEN "ramp" ELSE @,
        !.inputPhase = [i \in DOMAIN p.inputPhase |->
                           IF i < p.fftSize THEN phase[i] ELSE inputPhase[i]],
        !.outputPhase = [i \in DOMAIN p.outputPhase |->
                            IF i < p.fftSize THEN newPhase[i] ELSE outputPhase[i]],
        !.outputBuffer = PitchOverlapAdd(@, p.outputBufferLength, values,
                                         p.currentOutputBufferWritePosition, 0),
        !.currentOutputBufferWritePosition =
            IF @ + p.hopSize >= p.outputBufferLength THEN 0 ELSE @ + p.hopSize,
        !.changed = FALSE,
        !.frames = Append(@,
            [at |-> Len(p.outLog), ratio |-> b.ratio,
             resampledLength |-> b.resampledLength,
             smoothing |-> p.paramShift.countdown > 0,
             pendingBefore |-> p.needToResetPhases,
             pendingFrom |-> IF p.paramShift.countdown > 0 THEN "ramp"
                             ELSE p.pendingFrom,
             settled |-> b.shift = p.paramShift.target,
             reset |-> PitchResets(p, b), changed |-> p.changed,
             historiesEqual |-> \A i \in 0 .. p.fftSize - 1 :
                 CongruentModTwoPi(inputPhase[i], outputPhase[i]),
             phase |-> phase, newPhase |-> newPhase,
             readPosition |-> p.currentOutputBufferReadPosition,
             writePosition |-> p.currentOutputBufferWritePosition,
             values |-> values])]

\* the bin loop (lines 185-195) and the inverse transform
PitchVocoder(p, b, spectrum, inputPhase, outputPhase, phase) ==
    Having([index \in 0 .. p.fftSize - 1 |->
               PitchNewPhase(phase[index], inputPhase[index], outputPhase[index],
                             RMul(Omega(index, p.fftSize), RInt(p.hopSize)),
                             b.ratio)],
           LAMBDA newPhase :
               Having(PitchResampled(p, b,
                          FftPerform([index \in 0 .. p.fftSize - 1 |->
                                         Polar(CAbs(spectrum[index]),
                                               RMul(newPhase[index], Rat(1, 2)))],
                                     p.fftSize, TRUE)),
                      LAMBDA values :
                          PitchSynthesis(p, b, inputPhase, outputPhase, phase,
                                         newPhase, values)))

\* the frame from its spectrum on
PitchTransformed(p, b, spectrum) ==
    Having([index \in 0 .. p.fftSize - 1 |-> Arg(spectrum[index])],
           LAMBDA phase :
               PitchVocoder(p, b, spectrum, PitchHistory(p, b, p.inputPhase),
                            PitchHistory(p, b, p.outputPhase), phase))

\* the body of `if (++currentSamplesSinceLastFFT >= hopSize)` (lines 159-226)
\* for the block values b = (shift, ratio, resampledLength, synthesisWindow)
PitchFrame(p, b) ==
    Having(FftPerform(PitchAnalysis(p), p.fftSize, FALSE),
           LAMBDA spectrum : PitchTransformed(p, b, spectrum))

\* a sample loop that leaves the emitted slot of the output ring as it is
PitchSampleKept(p, b, in) ==
    LET emitted == p.outputBuffer[p.currentOutputBufferReadPosition]
        fire == p.currentSamplesSinceLastFFT + 1 >= p.hopSize
        a == [p EXCEPT
                !.currentOutputBufferReadPosition =
                    IF @ + 1 >= p.outputBufferLength THEN 0 ELSE @ + 1,
                !.inputBuffer[p.currentInputBufferWritePosition] = RInt(in),
                !.currentInputBufferWritePosition =
                    IF @ + 1 >= p.inputBufferLength THEN 0 ELSE @ + 1,
                !.currentSamplesSinceLastFFT = IF fire THEN 0 ELSE @ + 1,
                !.outLog = Append(@, emitted)]
    IN  IF fire THEN Having(a, LAMBDA q : PitchFrame(q, b)) ELSE a

\* one pass of the sample loop of processBlock (lines 139-230)
PitchSample(p, b, in) ==
    LET emitted == p.outputBuffer[p.currentOutputBufferReadPosition]
        fire == p.currentSamplesSinceLastFFT + 1 >= p.hopSize
        a == [p EXCEPT
                !.outputBuffer[p.currentOutputBufferReadPosition] = RZero,
                !.currentOutputBufferReadPosition =
                    IF @ + 1 >= p.outputBufferLength THEN 0 ELSE @ + 1,
                !.inputBuffer[p.currentInputBufferWritePosition] = RInt(in),
                !.currentInputBufferWritePosition =
                    IF @ + 1 >= p.inputBufferLength THEN 0 ELSE @ + 1,
                !.currentSamplesSinceLastFFT = IF fire THEN 0 ELSE @ + 1,
                !.outLog = Append(@, emitted)]
    IN  IF fire THEN Having(a, LAMBDA q : PitchFrame(q, b)) ELSE a

RECURSIVE PitchSamples(_, _, _, _)
PitchSamples(p, b, data, sample) ==
    IF sample > Len(data) THEN p
    ELSE Having(PitchSample(p, b, data[sample]),
                LAMBDA q : PitchSamples(q, b, data, sample + 1))

\* the sample loop of processBlock and the saving of the cursors, for the
\* block values b
PitchBlock(p, b, data) ==
    LET t == PitchSamples(
                 [p EXCEPT
                     !.currentInputBufferWritePosition = p.inputBufferWritePosition,
                     !.currentOutputBufferWritePosition = p.outputBufferWritePosition,
                     !.currentOutputBufferReadPosition = p.outputBufferReadPosition,
                     !.currentSamplesSinceLastFFT = p.samplesSinceLastFFT],
                 b, data, 1)
    IN  [t EXCEPT !.inputBufferWritePosition = t.currentInputBufferWritePosition,
                  !.outputBufferWritePosition = t.currentOutputBufferWritePosition,
                  !.outputBufferReadPosition = t.currentOutputBufferReadPosition,
                  !.samplesSinceLastFFT = t.currentSamplesSinceLastFFT,
                  !.ratios = @ \cup {b.ratio}]

\* the values processBlock computes once for the block (lines 122-127)
PitchBlockValues(p, shift) ==
    LET ratio == PitchRatio(shift, p.hopSize)
        resampledLength == ResampledLength(p.fftSize, ratio)
    IN  [shift |-> shift, ratio |-> ratio, resampledLength |-> resampledLength,
         synthesisWindow |-> PitchWindow(p.paramWindowType, resampledLength)]

\* PitchShiftAudioProcessor::processBlock on the samples `data`
PitchProcess(p, data) ==
    Having(SmoothedNext(p.paramShift),
           LAMBDA next :
               Having(PitchBlockValues(p, next.returned[1]),
                      LAMBDA b : PitchBlock([p EXCEPT !.paramShift = next], b, data)))

\* the ratios at which the resampled frame stays in the model's numbers
PitchExactRatios == {ROne, RInt(2)}

\* no two non-zero samples in a row, the sample before the block included
Sparse(data, last) ==
    \A i \in 1 .. Len(data) :
        data[i] = 0 \/ (IF i = 1 THEN last = RZero ELSE data[i - 1] = 0)

\* the processor as its constructor leaves it (the defaults of the three
\* choices scaled to the sizes tried); needToResetPhases is not initialised
PitchConstructed(needToResetPhases, maxSamples, maxEvents, maxOnes) ==
    PitchUpdated(
        [maxSamples |-> maxSamples, maxEvents |-> maxEvents, maxOnes |-> maxOnes,
         prepared |-> FALSE, needToResetPhases |-> needToResetPhases,
         pendingFrom |-> IF needToResetPhases THEN "constructor" ELSE "none",
         paramShift |-> SetCurrentAndTargetValue(
                            [stepsToTarget |-> 0, step |-> RZero, countdown |-> 0,
                             currentValue |-> RZero, target |-> RZero,
                             returned |-> <<>>],
                            PitchShiftOf(0)),
         paramFftSize |-> 4, paramHopSize |-> 2, paramWindowType |-> 1,
         fftSize |-> 0, overlap |-> 0, hopSize |-> 0,
         inputBufferLength |-> 0, outputBufferLength |-> 0,
         inputBuffer |-> <<>>, outputBuffer |-> <<>>, fftWindow |-> <<>>,
         windowScaleFactor |-> RZero, inputPhase |-> <<>>, outputPhase |-> <<>>,
         inputBufferWritePosition |-> 0, outputBufferWritePosition |-> 0,
         outputBufferReadPosition |-> 0, samplesSinceLastFFT |-> 0,
         currentInputBufferWritePosition |-> 0, currentOutputBufferWritePosition |-> 0,
         currentOutputBufferReadPosition |-> 0, currentSamplesSinceLastFFT |-> 0,
         outLog |-> <<>>, frames |-> <<>>, ratios |-> {}, changed |-> FALSE,
         events |-> 0])

\* an STFT of STFT.h with the pitch shifter's FFT size, overlap and window
StftLike(p) ==
    StftUpdateParameters(StftSetup(StftConstructed, 1), p.paramFftSize,
                         p.paramHopSize, PitchWindowTypes[p.paramWindowType + 1])

PitchOthers == UNCHANGED <<chorus, vibrato, pingpong, panning, line, param, filt, wah>>

\* PitchShiftAudioProcessor::prepareToPlay
PitchPrepareToPlay ==
    /\ PitchOthers
    /\ UNCHANGED stft
    /\ plug.events < plug.maxEvents
    /\ plug' = [plug EXCEPT
                   !.prepared = TRUE,
                   !.paramShift = SmoothedReset(@, PitchSampleRate, smoothTime),
                   !.needToResetPhases = TRUE,
                   !.pendingFrom = "prepareToPlay",
                   !.events = IF plug.prepared THEN @ + 1 ELSE @]

\* the shift parameter changes: PluginParameter::updateValue
PitchShiftChanged ==
    /\ PitchOthers
    /\ UNCHANGED stft
    /\ plug.events < plug.maxEvents
    /\ \E value \in PitchSemitones :
          /\ PitchShiftOf(value) # plug.paramShift.target
          /\ plug' = [plug EXCEPT
                         !.paramShift = SetCurrentAndTargetValue(@, PitchShiftOf(value)),
                         !.changed = TRUE,
                         !.events = @ + 1]

\* the FFT-size callback
PitchFftSizeChanged ==
    /\ PitchOthers
    /\ \E f \in PitchFftSizes :
          /\ plug' = PitchUpdated([plug EXCEPT !.paramFftSize = f])
          /\ stft' = StftLike(plug')

\* the hop-size callback
PitchHopSizeChanged ==
    /\ PitchOthers
    /\ \E o \in PitchOverlaps :
          /\ plug' = PitchUpdated([plug EXCEPT !.paramHopSize = o])
          /\ stft' = StftLike(plug')

\* the window-type callback
PitchWindowTypeChanged ==
    /\ PitchOthers
    /\ \E w \in PitchWindowChoices :
          /\ plug' = PitchUpdated([plug EXCEPT !.paramWindowType = w])
          /\ stft' = StftLike(plug')

\* processBlock on a block of n samples, the STFT alongside on the same block
PitchProcessBlock ==
    /\ PitchOthers
    /\ plug.prepared
    /\ PitchRatio(plug.paramShift.target, plug.hopSize) \in PitchExactRatios
    /\ \E n \in 1 .. MaxBlock :
          /\ Len(plug.outLog) + n <= plug.maxSamples
          /\ \E data \in [1 .. n -> SampleValues] :
                /\ Sparse(data, plug.inputBuffer[(plug.inputBufferWritePosition
                                                  + plug.inputBufferLength - 1)
                                                 % plug.inputBufferLength])
                /\ Cardinality({i \in 1 .. n : data[i] # 0})
                       + Cardinality({i \in DOMAIN stft.inLog[0] : stft.inLog[0][i] # 0})
                       <= plug.maxOnes
                /\ plug' = PitchProcess(plug, data)
                /\ stft' = StftProcessBlock(stft, [channel \in {0} |-> data])

PitchInit ==
    /\ \E needToResetPhases \in BOOLEAN :
          /\ plug = PitchConstructed(needToResetPhases, PitchMaxSamples,
                                     PitchMaxEvents, PitchMaxSamples)
          /\ stft = StftLike(plug)
    /\ chorus = 0 /\ vibrato = 0 /\ pingpong = 0 /\ panning = 0
    /\ line = 0 /\ param = 0 /\ filt = 0 /\ wah = 0

PitchNext ==
    \/ PitchPrepareToPlay
    \/ PitchShiftChanged
    \/ PitchFftSizeChanged
    \/ PitchHopSizeChanged
    \/ PitchWindowTypeChanged
    \/ PitchProcessBlock

SpecPitch ==
    /\ PitchInit
    /\ [][PitchNext]_vars

\* the same processor and the same STFT on longer runs with fewer events,
\* long enough for the read cursor of the pitch shifter's output ring to
\* come round
DrainInit ==
    /\ \E needToResetPhases \in BOOLEAN :
          /\ plug = PitchConstructed(needToResetPhases, DrainMaxSamples,
                                     DrainMaxEvents, DrainMaxOnes)
          /\ stft = StftLike(plug)
    /\ chorus = 0 /\ vibrato = 0 /\ pingpong = 0 /\ panning = 0
    /\ line = 0 /\ param = 0 /\ filt = 0 /\ wah = 0

SpecDrain ==
    /\ DrainInit
    /\ [][PitchNext]_vars

\* C11: a frame computed at the quantised ratio 1 has resampledLength =
\* fftSize and the identity index map with zero fractional part; if the two
\* phase histories are equal modulo 2 pi when its bin loop starts, the phase
\* it synthesises for every bin is the analysed phase modulo 2 pi; and while
\* every block since the last reconfiguration ran at ratio 1 the pitch
\* shifter has emitted exactly what the STFT with the same FFT size, hop
\* size and window has emitted for the same input.
C11_RatioOneIdentity ==
    /\ \A n \in DOMAIN plug.frames :
          LET f == plug.frames[n]
          IN  f.ratio = ROne =>
                 /\ f.resampledLength = plug.fftSize
                 /\ \A index \in 0 .. plug.fftSize - 1 :
                       ResampleIndex(index, plug.fftSize, f.resampledLength)
                           = [ix |-> index, dx |-> RZero]
                 /\ f.historiesEqual =>
                       \A index \in 0 .. plug.fftSize - 1 :
                           CongruentModTwoPi(f.newPhase[index], f.phase[index])
    /\ plug.ratios \subseteq {ROne} => plug.outLog = stft.outLog[0]

\* five samples went through at ratio 1; a frame had a bin on the imaginary
\* axis, and the fifth sample out is the 1 that went in first
C11_Witness ==
    /\ plug.ratios = {ROne}
    /\ Len(plug.outLog) = 5
    /\ stft.inLog[0][1] = 1
    /\ plug.outLog[5] = ROne
    /\ stft.outLog[0][5] = ROne
    /\ \E n \in DOMAIN plug.frames : plug.frames[n].phase[1] = Rat(-1, 2)

\* what a logged frame of the pitch shifter adds to the output sample with
\* the 0-based number t: the frame was accumulated from the slot the read
\* cursor stood on, so its value `index` belongs to output sample at + index
FrameAdds(f, t) ==
    IF t >= f.at /\ t - f.at < Len(f.values) THEN f.values[t - f.at + 1] ELSE RZero

\* the sum of what all frames so far add to output sample t
PitchAdded(t) ==
    RSum([n \in 1 .. Len(plug.frames) |-> FrameAdds(plug.frames[n], t)],
         1, Len(plug.frames))

\* the 1-based input sample k of the STFT, 0 before the start
StftInput(k) == IF k >= 1 THEN RInt(stft.inLog[0][k]) ELSE RZero

\* the same for the STFT frame that fired on input sample number `at`: the
\* windowed input comes back from the pass-through modification, scaled
StftFrameAdds(at, t) ==
    IF t >= at /\ t - at < stft.fftSize
    THEN RMul(RMul(stft.fftWindow[t - at], StftInput(at - stft.fftSize + (t - at) + 1)),
              stft.windowScaleFactor)
    ELSE RZero

StftAdded(t) ==
    RSum([n \in 1 .. Len(stft.frameLog[0]) |->
             StftFrameAdds(stft.frameLog[0][n] + 1, t)],
         1, Len(stft.frameLog[0]))

\* C13: at every synthesis the output write cursor stands on the output
\* read cursor, a whole lap ahead of it, and between two syntheses it leads
\* by the samples still missing to the next hop; every output sample
\* emitted so far is the sum of the frame values that belong to it, each
\* counted once, and the slot that will be emitted j samples from now holds
\* the sum of the frame values that belong to that sample and nothing else
\* (0 if no frame reached it): emitted slots were zeroed and nothing stale
\* is accumulated again.  For the pitch shifter and for the STFT.
C13_RingDrained ==
    /\ \A n \in DOMAIN plug.frames :
          plug.frames[n].readPosition = plug.frames[n].writePosition
    /\ (plug.outputBufferWritePosition - plug.outputBufferReadPosition
           + plug.outputBufferLength) % plug.outputBufferLength
          = (plug.hopSize - plug.samplesSinceLastFFT) % plug.outputBufferLength
    /\ (stft.outputBufferWritePosition - stft.outputBufferReadPosition
           + stft.outputBufferLength) % stft.outputBufferLength
          = (stft.hopSize - stft.samplesSinceLastFFT) % stft.outputBufferLength
    /\ \A t \in 1 .. Len(plug.outLog) :
          /\ plug.outLog[t] = PitchAdded(t - 1)
          /\ stft.outLog[0][t] = StftAdded(t - 1)
    /\ \A j \in 0 .. plug.outputBufferLength - 1 :
          plug.outputBuffer[(plug.outputBufferReadPosition + j)
                            % plug.outputBufferLength]
              = PitchAdded(Len(plug.outLog) + j)
    /\ \A j \in 0 .. stft.outputBufferLength - 1 :
          stft.outputBuffer[0][(stft.outputBufferReadPosition + j)
                               % stft.outputBufferLength]
              = StftAdded(Len(stft.outLog[0]) + j)

\* the read cursor of the pitch shifter's ring has come round: the ninth
\* sample out, emitted from slot 0 again, is the 1 that went in fifth, which
\* two overlapping frames had accumulated there after the slot was zeroed
C13_Witness ==
    /\ Len(plug.outLog) = 9
    /\ plug.overlap = 4
    /\ plug.ratios = {ROne}
    /\ stft.inLog[0][5] = 1
    /\ plug.outLog[9] = ROne
    /\ plug.outputBufferReadPosition = 1
    /\ plug.outputBuffer[0] = RZero
    /\ FrameAdds(plug.frames[6], 8) = Rat(1, 2)
    /\ FrameAdds(plug.frames[7], 8) = Rat(1, 2)

\* C16 as stated: a frame clears the phase histories only if the shift it
\* runs at equals the target while a reset is pending, and a reset is
\* pending only from prepareToPlay or from a frame that saw the shift
\* parameter ramping; a frame clears them only after prepareToPlay or after
\* a change of the shift, and the first frame after a change of the shift,
\* once the shift has settled on its target, clears them.
C16_ResetProtocol ==
    /\ plug.prepared /\ plug.needToResetPhases
          => plug.pendingFrom \in {"prepareToPlay", "ramp"}
    /\ \A n \in DOMAIN plug.frames :
          LET f == plug.frames[n]
          IN  /\ f.reset => f.settled /\ (f.pendingBefore \/ f.smoothing)
              /\ f.reset => f.pendingFrom = "prepareToPlay" \/ f.changed
              /\ f.changed /\ f.settled => f.reset

\* the shift went from 1 to 2 and back to 1 with frames in between: no frame
\* after the first cleared the histories, and the last frame, at ratio 1,
\* started from unequal histories and synthesised another phase than the
\* analysed one
C16_Witness ==
    /\ Len(plug.frames) >= 3
    /\ plug.frames[1].reset
    /\ \E n \in 2 .. Len(plug.frames) - 1 :
          /\ plug.frames[n].changed /\ plug.frames[n].settled
          /\ plug.frames[n].ratio = RInt(2)
          /\ ~plug.frames[n].smoothing
    /\ \A n \in 2 .. Len(plug.frames) : ~plug.frames[n].reset
    /\ LET f == plug.frames[Len(plug.frames)]
       IN  /\ f.ratio = ROne
           /\ f.changed
           /\ ~f.historiesEqual
           /\ \E index \in 0 .. plug.fftSize - 1 :
                  ~CongruentModTwoPi(f.newPhase[index], f.phase[index])

-----------------------------------------------------------------------------
(* What a sample step stores into the delay buffer: Ping-Pong Delay and    *)
(* Vibrato.                                                                *)

\* the last step of the Ping-Pong log
PingPongLastStep == pingpong.log[Len(pingpong.log)]

\* Ping-Pong Delay has run a step
PingPongStepped ==
    pingpong.live /\ pingpong.prepared /\ Len(pingpong.log) > 0

\* the channels of Vibrato that have run a step
VibratoStepped ==
    IF vibrato.live /\ vibrato.prepared
    THEN {ch \in 0 .. vibrato.numChannels - 1 : Len(vibrato.log[ch]) > 0}
    ELSE {}

\* the last step of a Vibrato channel
VibratoLastStep(ch) == vibrato.log[ch][Len(vibrato.log[ch])]

\* after its last step the Ping-Pong slot at the step's write position holds,
\* in each channel, that channel's input plus paramFeedback times what the
\* step read from the other channel's delay line
PingPongHoldsCrossFeedback ==
    LET e == PingPongLastStep
    IN  /\ pingpong.delayBuffer[0][e.wp] =
               RAdd(e.inL, RMul(e.outR, pingpong.paramFeedback))
        /\ pingpong.delayBuffer[1][e.wp] =
               RAdd(e.inR, RMul(e.outL, pingpong.paramFeedback))

\* C21 as stated: in Ping-Pong Delay and in Vibrato the value stored at the
\* write position in each sample step is input + feedbackGain * output, the
\* output being the delayed value read in that step (from the opposite
\* channel's delay line in Ping-Pong); the feedback gain is taken from the
\* values of the repository's feedback parameter.
C21_FeedbackWriteBack ==
    /\ PingPongStepped => PingPongHoldsCrossFeedback
    /\ \A ch \in VibratoStepped :
          LET e == VibratoLastStep(ch)
          IN  \E feedback \in PingPongFeedbacks :
                 vibrato.delayBuffer[ch][e.wp] =
                     RAdd(e["in"], RMul(e.reads[1].value, feedback))

\* C21 amended: a Ping-Pong Delay step whose floor(readPosition) differs
\* from the write position stores, in each channel, the channel's
\* balance-weighted input plus paramFeedback times the value it read from
\* the other channel's delay line; a Vibrato step stores the input alone,
\* whatever it read.
C21_CrossFeedbackOrInput ==
    /\ (PingPongStepped /\ PingPongLastStep.reading) =>
          PingPongHoldsCrossFeedback
    /\ \A ch \in VibratoStepped :
          vibrato.delayBuffer[ch][VibratoLastStep(ch).wp] =
              VibratoLastStep(ch)["in"]

\* a Ping-Pong step has stored an input together with a non-zero feedback
\* term from the right delay line
C21_Witness ==
    /\ PingPongStepped
    /\ PingPongLastStep.reading
    /\ PingPongLastStep.inL # RZero
    /\ RMul(PingPongLastStep.outR, pingpong.paramFeedback) # RZero
    /\ pingpong.delayBuffer[0][PingPongLastStep.wp] # PingPongLastStep.inL

-----------------------------------------------------------------------------
(* How often processBlock advances its smoothed parameters: Chorus,        *)
(* Wah-Wah and Compressor-Expander.                                        *)

effectChorus == "Chorus"
effectWahWah == "Wah-Wah"
effectCompressorExpander == "Compressor-Expander"
SmoothEffects == {effectChorus, effectWahWah, effectCompressorExpander}

\* samples and processBlock calls between two prepareToPlay calls
SmoothMaxSamples == 3
SmoothMaxBlocks == 3

\* the parameters each processBlock reads with getNextValue
ChorusSmoothed == {"paramDelay", "paramWidth", "paramDepth", "paramFrequency"}
WahAutomaticSmoothed == {"paramMixLFOandEnvelope", "paramLFOfrequency"}
WahSmoothed == {"paramEnvelopeAttack", "paramEnvelopeRelease", "paramMix"}
                   \cup WahAutomaticSmoothed
CompressorSmoothed == {"paramThreshold", "paramRatio", "paramAttack",
                       "paramRelease", "paramMakeupGain"}

SmoothedOf(effect) ==
    CASE effect = effectChorus -> ChorusSmoothed
      [] effect = effectWahWah -> WahSmoothed
      [] effect = effectCompressorExpander -> CompressorSmoothed

\* the values a parameter is moved to
SmoothTargets == {ROne, RInt(2)}

\* the processor after its constructor: paramMode of Wah-Wah is Manual,
\* paramBypass of Compressor-Expander is off
SmoothConstructed(effect) ==
    [effect |-> effect, prepared |-> FALSE, numChannels |-> 0,
     automatic |-> FALSE, bypass |-> FALSE,
     blocks |-> 0, samples |-> 0, automaticSamples |-> 0, changes |-> 0,
     params |-> [name \in SmoothedOf(effect) |->
                    [smoothed |-> ParamConstructed(callbackNone, ROne),
                     calls |-> 0]]]

\* name.getNextValue()
Advanced(params, name) ==
    [params EXCEPT ![name] = [smoothed |-> SmoothedNext(@.smoothed),
                              calls |-> @.calls + 1]]

\* getNextValue() of every parameter of names
RECURSIVE AdvancedAll(_, _)
AdvancedAll(params, names) ==
    IF names = {} THEN params
    ELSE LET name == CHOOSE x \in names : TRUE
         IN  AdvancedAll(Advanced(params, name), names \ {name})

\* a loop of `times' passes, each reading every parameter of names
RECURSIVE AdvancedTimes(_, _, _)
AdvancedTimes(params, names, times) ==
    IF times = 0 THEN params
    ELSE AdvancedTimes(AdvancedAll(params, names), names, times - 1)

\* a channel loop around the sample loop
RECURSIVE AdvancedChannels(_, _, _, _)
AdvancedChannels(params, names, channels, numSamples) ==
    IF channels = 0 THEN params
    ELSE AdvancedChannels(AdvancedTimes(params, names, numSamples), names,
                          channels - 1, numSamples)

\* ChorusAudioProcessor::processBlock: the four values are read once, before
\* the channel loop
ChorusAdvancedOnce(p, numSamples) ==
    AdvancedAll(p.params, ChorusSmoothed)

\* WahWahAudioProcessor::processBlock: the values are read inside the sample
\* loop, which is inside the channel loop; two of them only in mode Automatic
WahAdvanced(p, numSamples) ==
    AdvancedChannels(p.params,
                     IF p.automatic THEN WahSmoothed
                     ELSE WahSmoothed \ WahAutomaticSmoothed,
                     p.numChannels, numSamples)

\* CompressorExpanderAudioProcessor::processBlock: the values are read in the
\* sample loop, before the channel loop
CompressorAdvanced(p, numSamples) ==
    AdvancedTimes(p.params, CompressorSmoothed, numSamples)

SmoothOthers ==
    UNCHANGED <<stft, plug, chorus, vibrato, pingpong, panning, line, filt, wah>>

\* prepareToPlay: reset (sampleRate, smoothTime) of every parameter
SmoothPrepareToPlay ==
    /\ SmoothOthers
    /\ \E sampleRate \in ParamSampleRates, channels \in ChannelCounts :
          param' = [param EXCEPT
                       !.prepared = TRUE, !.numChannels = channels,
                       !.blocks = 0, !.samples = 0, !.automaticSamples = 0,
                       !.params = [name \in DOMAIN @ |->
                           [smoothed |-> SmoothedReset(@[name].smoothed,
                                                       sampleRate, smoothTime),
                            calls |-> 0]]]

\* parameterChanged of one smoothed parameter
SmoothParameterChanged ==
    /\ SmoothOthers
    /\ param.changes < MaxChanges
    /\ \E name \in DOMAIN param.params, newValue \in SmoothTargets :
          /\ param.params[name].smoothed.target # newValue
          /\ param' = [param EXCEPT
                          !.changes = @ + 1,
                          !.params[name].smoothed = UpdateValue(@, newValue)]

\* parameterChanged of paramMode (Wah-Wah) or paramBypass
\* (Compressor-Expander)
SmoothSwitchChanged ==
    /\ SmoothOthers
    /\ param.changes < MaxChanges
    /\ \/ /\ param.effect = effectWahWah
          /\ param' = [param EXCEPT !.automatic = ~@, !.changes = @ + 1]
       \/ /\ param.effect = effectCompressorExpander
          /\ param' = [param EXCEPT !.bypass = ~@, !.changes = @ + 1]

\* the block is counted, with the samples the sample loop has processed
SmoothCounted(p, numSamples, params) ==
    [p EXCEPT !.blocks = @ + 1,
              !.samples = @ + numSamples,
              !.automaticSamples = IF p.automatic THEN @ + numSamples ELSE @,
              !.params = params]

\* ChorusAudioProcessor::processBlock
ChorusSmoothedBlock ==
    /\ SmoothOthers
    /\ param.effect = effectChorus /\ param.prepared
    /\ param.blocks < SmoothMaxBlocks
    /\ \E numSamples \in 0 .. SmoothMaxSamples - param.samples :
          param' = SmoothCounted(param, numSamples,
                                 ChorusAdvancedOnce(param, numSamples))

\* WahWahAudioProcessor::processBlock
WahSmoothedBlock ==
    /\ SmoothOthers
    /\ param.effect = effectWahWah /\ param.prepared
    /\ param.blocks < SmoothMaxBlocks
    /\ \E numSamples \in 0 .. SmoothMaxSamples - param.samples :
          param' = SmoothCounted(param, numSamples,
                                 WahAdvanced(param, numSamples))

\* CompressorExpanderAudioProcessor::processBlock: with paramBypass set it
\* returns before the sample loop
CompressorSmoothedBlock ==
    /\ SmoothOthers
    /\ param.effect = effectCompressorExpander /\ param.prepared
    /\ param.blocks < SmoothMaxBlocks
    /\ \E numSamples \in 0 .. SmoothMaxSamples - param.samples :
          param' = IF param.bypass THEN [param EXCEPT !.blocks = @ + 1]
                   ELSE SmoothCounted(param, numSamples,
                                      CompressorAdvanced(param, numSamples))

SmoothInit ==
    /\ param \in {SmoothConstructed(effect) : effect \in SmoothEffects}
    /\ stft = 0 /\ plug = 0 /\ chorus = 0 /\ vibrato = 0 /\ pingpong = 0
    /\ panning = 0 /\ line = 0 /\ filt = 0 /\ wah = 0

SmoothNext ==
    \/ SmoothPrepareToPlay
    \/ SmoothParameterChanged
    \/ SmoothSwitchChanged
    \/ ChorusSmoothedBlock
    \/ WahSmoothedBlock
    \/ CompressorSmoothedBlock

SpecSmooth == SmoothInit /\ [][SmoothNext]_vars

\* the samples in which processBlock has consumed the parameter since
\* prepareToPlay
SamplesConsuming(name) ==
    IF name \in WahAutomaticSmoothed THEN param.automaticSamples
    ELSE param.samples

\* C22: every smoothed parameter consumed by processBlock is advanced
\* exactly once per processed sample: after n samples on c channels it has
\* been advanced n times, whatever c and the split into blocks.
C22_OncePerSample ==
    param.prepared =>
        \A name \in DOMAIN param.params :
            param.params[name].calls = SamplesConsuming(name)

\* Wah-Wah has processed two samples on two channels and advanced paramMix
\* four times
C22_Witness ==
    /\ param.effect = effectWahWah /\ param.prepared
    /\ param.numChannels = 2 /\ param.samples = 2
    /\ param.params["paramMix"].calls = 4

\* Compressor-Expander has processed samples in two blocks and advanced
\* every parameter once per sample
CompressorOncePerSample ==
    (param.effect = effectCompressorExpander /\ param.prepared) =>
        \A name \in CompressorSmoothed :
            param.params[name].calls = param.samples

-----------------------------------------------------------------------------
(* The reads of one Chorus sample step over the declared parameter ranges. *)

\* the sample rates prepareToPlay is called with: the buffer gets 3 or 5
\* slots
ReadSampleRates == {RInt(20), RInt(40)}
\* paramDelay and paramWidth (10 .. 50 ms), in seconds
ReadDelays == {Rat(1, 100), Rat(1, 20)}
ReadWidths == {Rat(1, 100), Rat(1, 20)}
\* paramNumVoices (2 .. 5)
ReadVoices == {2, 3, 4, 5}
\* the waveforms whose values are rational; the sine stays in [0, 1] for
\* every argument
ReadWaveforms == {waveformTriangle, waveformSawtooth, waveformInverseSawtooth}
\* lfoPhase, in [0, 1)
ReadPhases == {RZero, Rat(1, 4), Rat(1, 2), Rat(3, 4), Rat(9, 10)}

\* fmodf (a, n) for an integer n > 0: the result has the sign of a
Fmodf(a, n) == IF a[1] >= 0 THEN RFmod(a, n) ELSE RNeg(RFmod(RNeg(a), n))

\* a % n on ints, n > 0: the result has the sign of a
IntRem(a, n) == IF a >= 0 THEN a % n ELSE -((-a) % n)

\* the subscripts of delayData the interpolation reads (lines 147-175)
ReadIndices(localReadPosition, delayBufferSamples, interpolation) ==
    CASE interpolation = interpolationNearestNeighbour ->
            {IntRem(localReadPosition, delayBufferSamples)}
      [] interpolation = interpolationLinear ->
            {localReadPosition + 0,
             IntRem(localReadPosition + 1, delayBufferSamples)}
      [] interpolation = interpolationCubic ->
            {IntRem(localReadPosition - 1 + delayBufferSamples, delayBufferSamples),
             localReadPosition + 0,
             IntRem(localReadPosition + 1, delayBufferSamples),
             IntRem(localReadPosition + 2, delayBufferSamples)}
      [] OTHER -> {}

\* one voice of the voice loop (lines 134-146): the LFO argument and value,
\* localDelayTime in seconds and in samples, readPosition, and the subscripts
ChorusVoiceRead(c, voice) ==
    LET argument == RAdd(c.phase, ChorusPhaseOffset(c.paramNumVoices, voice))
        lfo == Lfo(argument, c.paramWaveform)
        seconds == RAdd(c.paramDelay, RMul(c.paramWidth, lfo))
        localDelayTime == RMul(seconds, c.sampleRate)
        readPosition ==
            Fmodf(RAdd(RSub(RInt(c.localWritePosition), localDelayTime),
                       RInt(c.delayBufferSamples)),
                  c.delayBufferSamples)
    IN  [argument |-> argument, lfo |-> lfo, seconds |-> seconds,
         readPosition |-> readPosition,
         indices |-> ReadIndices(RFloor(readPosition), c.delayBufferSamples,
                                 c.paramInterpolation)]

ReadOthers ==
    UNCHANGED <<stft, plug, vibrato, pingpong, panning, line, param, filt, wah>>

\* one pass of the sample loop: the reads of voices 0 .. numVoices - 2
ChorusVoicesRead ==
    /\ ReadOthers
    /\ chorus.reads = <<>>
    /\ chorus' = [chorus EXCEPT !.reads =
                     [voice \in 1 .. chorus.paramNumVoices - 1 |->
                         ChorusVoiceRead(chorus, voice - 1)]]

\* the next pass, at any phase and write position
ChorusNextPass ==
    /\ ReadOthers
    /\ chorus.reads # <<>>
    /\ \E phase \in ReadPhases, wp \in 0 .. chorus.delayBufferSamples - 1 :
          chorus' = [chorus EXCEPT !.phase = phase, !.localWritePosition = wp,
                                   !.reads = <<>>]

\* a prepared Chorus before a pass of the sample loop, with parameters in
\* their declared ranges
ReadInit ==
    /\ \E sampleRate \in ReadSampleRates :
          chorus \in [sampleRate : {sampleRate},
                      delayBufferSamples :
                          {BufferSamplesFor(ChorusMaxDelayTime, sampleRate)},
                      paramDelay : ReadDelays, paramWidth : ReadWidths,
                      paramNumVoices : ReadVoices,
                      paramWaveform : ReadWaveforms,
                      paramInterpolation : Interpolations,
                      phase : {RZero}, localWritePosition : {0},
                      reads : {<<>>}]
    /\ stft = 0 /\ plug = 0 /\ vibrato = 0 /\ pingpong = 0 /\ panning = 0
    /\ line = 0 /\ param = 0 /\ filt = 0 /\ wah = 0

ReadNext == ChorusVoicesRead \/ ChorusNextPass

SpecRead == ReadInit /\ [][ReadNext]_vars

\* C23: with the parameters in their declared ranges and the phase in
\* [0, 1), the LFO value of every voice lies in [0, 1], the voice delay is
\* at most delay + width, and every subscript used to read the delay buffer
\* lies in 0 .. delayBufferSamples - 1.
C23_ReadsInBounds ==
    \A voice \in DOMAIN chorus.reads :
        LET r == chorus.reads[voice]
        IN  /\ RLe(RZero, r.lfo) /\ RLe(r.lfo, ROne)
            /\ RLe(r.seconds, RAdd(chorus.paramDelay, chorus.paramWidth))
            /\ r.indices \subseteq 0 .. chorus.delayBufferSamples - 1

\* a voice whose LFO argument is 1 or more has read below the start of the
\* delay buffer
C23_Witness ==
    \E voice \in DOMAIN chorus.reads :
        LET r == chorus.reads[voice]
        IN  /\ RLe(ROne, r.argument)
            /\ RLt(ROne, r.lfo)
            /\ \E index \in r.indices : index < 0

\* the voices whose LFO argument is below 1 stay inside the ranges
ReadsInBoundsBelowOne ==
    \A voice \in DOMAIN chorus.reads :
        LET r == chorus.reads[voice]
        IN  RLt(r.argument, ROne) =>
               /\ RLe(RZero, r.lfo) /\ RLe(r.lfo, ROne)
               /\ RLe(r.seconds, RAdd(chorus.paramDelay, chorus.paramWidth))
               /\ r.indices \subseteq 0 .. chorus.delayBufferSamples - 1

-----------------------------------------------------------------------------
(* Phaser: which LFO phase the coefficients of a filter were computed      *)
(* from when the filter processes a sample.                                *)

\* prepareToPlay: updateFiltersInterval = 32
updateFiltersInterval == 32
\* samples processed after prepareToPlay
SweepMaxSamples == 34
\* paramLFOfrequency (0.05 .. 2 Hz) and the sample rate: the phase moves by
\* 1/64 per sample
SweepLfoFrequency == RInt(2)
SweepSampleRate == RInt(128)

\* the coefficients of a new Filter(): not computed from any phase
NoCoefficients == [channel |-> -1, phase |-> RZero, stereo |-> FALSE]

\* PhaserAudioProcessor::updateFilters: every filter of the array gets the
\* coefficients of the centre frequency, which was computed from the phase
\* of the channel being processed
UpdateFilters(filters, channel, phase, stereo) ==
    [f \in DOMAIN filters |->
        [channel |-> channel, phase |-> phase, stereo |-> stereo]]

\* one pass of the sample loop (lines 122-143) on a channel
SweepSample(p, st, channel) ==
    LET updated == IF st.sampleCount % updateFiltersInterval = 0
                   THEN UpdateFilters(st.filters, channel, st.phase, p.stereo)
                   ELSE st.filters
    IN  [phase |-> AdvancePhase(st.phase, SweepLfoFrequency, SweepSampleRate),
         sampleCount |-> st.sampleCount + 1,
         filters |-> updated,
         phaseMain |-> st.phaseMain,
         used |-> st.used \cup
                     {[channel |-> channel, stereo |-> p.stereo,
                       coefficients |-> updated[channel * p.paramNumFilters + i]] :
                          i \in 0 .. p.paramNumFilters - 1}]

RECURSIVE SweepSamples(_, _, _, _)
SweepSamples(p, st, channel, numSamples) ==
    IF numSamples = 0 THEN st
    ELSE Having(SweepSample(p, st, channel),
                LAMBDA r : SweepSamples(p, r, channel, numSamples - 1))

\* the phase a channel's pass starts from (lines 118-120)
SweepStartPhase(p, channel) ==
    IF p.stereo /\ channel # 0
    THEN RFmod(RAdd(p.lfoPhase, Rat(1, 4)), 1)
    ELSE p.lfoPhase

\* the channel loop (lines 115-147): every channel starts from the saved
\* sample count and phase; the filters are the same objects throughout
RECURSIVE SweepChannels(_, _, _, _)
SweepChannels(p, st, channel, numSamples) ==
    IF channel >= p.numChannels THEN st
    ELSE LET r == SweepSamples(p, [st EXCEPT
                                      !.sampleCount = p.sampleCountToUpdateFilters,
                                      !.phase = SweepStartPhase(p, channel)],
                               channel, numSamples)
         IN  SweepChannels(p, IF channel = 0 THEN [r EXCEPT !.phaseMain = r.phase]
                              ELSE r,
                           channel + 1, numSamples)

\* PhaserAudioProcessor::processBlock
SweepProcessed(p, numSamples) ==
    LET r == SweepChannels(p, [phase |-> p.lfoPhase,
                               sampleCount |-> p.sampleCountToUpdateFilters,
                               filters |-> p.filters, phaseMain |-> p.lfoPhase,
                               used |-> {}],
                           0, numSamples)
    IN  [p EXCEPT !.sampleCountToUpdateFilters = r.sampleCount,
                  !.lfoPhase = r.phaseMain,
                  !.filters = r.filters,
                  !.used = r.used]

SweepOthers ==
    UNCHANGED <<stft, plug, chorus, vibrato, pingpong, panning, line, param, wah>>

\* PhaserAudioProcessor::prepareToPlay
SweepPrepareToPlay ==
    /\ SweepOthers
    /\ \E channels \in ChannelCounts :
          filt' = [filt EXCEPT
              !.prepared = TRUE, !.numChannels = channels,
              !.filters = [f \in 0 .. channels
                                        * NumFiltersOf(Len(NumFiltersItems) - 1) - 1
                              |-> NoCoefficients],
              !.sampleCountToUpdateFilters = 0,
              !.lfoPhase = RZero,
              !.used = {}]

\* parameterChanged of paramStereo, between two blocks
SweepStereoChanged ==
    /\ SweepOthers
    /\ filt.changes < MaxChanges
    /\ filt' = [filt EXCEPT !.stereo = ~@, !.changes = @ + 1]

\* PhaserAudioProcessor::processBlock
SweepProcessBlock ==
    /\ SweepOthers
    /\ filt.prepared
    /\ \E numSamples \in 0 .. SweepMaxSamples - filt.sampleCountToUpdateFilters :
          filt' = SweepProcessed(filt, numSamples)

\* the processor after its constructor: paramStereo is on, paramNumFilters 4
SweepInit ==
    /\ stft = 0 /\ plug = 0 /\ chorus = 0 /\ vibrato = 0 /\ pingpong = 0
    /\ panning = 0 /\ line = 0 /\ param = 0 /\ wah = 0
    /\ filt = [prepared |-> FALSE, numChannels |-> 0, stereo |-> TRUE,
               paramNumFilters |-> NumFiltersOf(DefaultNumFiltersItem),
               filters |-> <<>>, sampleCountToUpdateFilters |-> 0,
               lfoPhase |-> RZero, used |-> {}, changes |-> 0]

SweepNext == SweepPrepareToPlay \/ SweepStereoChanged \/ SweepProcessBlock

SpecSweep == SweepInit /\ [][SweepNext]_vars

\* C24: in stereo mode the filters that process a sample of channel c carry
\* coefficients computed from channel c's own LFO phase; coefficients
\* computed from one channel's phase never filter the other channel, for
\* every block size and across block boundaries.
C24_OwnCoefficients ==
    \A u \in filt.used :
        (u.stereo /\ u.coefficients.stereo) => u.coefficients.channel = u.channel

\* in stereo mode a sample of channel 0 has been filtered with coefficients
\* computed from the phase of channel 1, and one of channel 1 with
\* coefficients of channel 0
C24_Witness ==
    /\ filt.stereo /\ filt.numChannels = 2
    /\ \E u \in filt.used :
          u.stereo /\ u.channel = 0 /\ u.coefficients.stereo
              /\ u.coefficients.channel = 1
    /\ \E u \in filt.used :
          u.stereo /\ u.channel = 1 /\ u.coefficients.stereo
              /\ u.coefficients.channel = 0

-----------------------------------------------------------------------------
(* The frame sizes the parameter callbacks produce (Robotization-          *)
(* Whisperization through STFT, Pitch Shift), and the output ring of       *)
(* Pitch Shift under one frame's overlap-add.                              *)

processorRobotization == "Robotization-Whisperization"
processorPitchShift == "Pitch Shift"
RingProcessors == {processorRobotization, processorPitchShift}

\* the items of the FFT-size and hop-size choices: fftSize32 .. fftSize8192
\* and hopSize2 .. hopSize8
fftSize512 == 4
fftSize8192 == 8
hopSize8 == 2

\* paramShift after its callback, 2 ^ (semitones / 12) for -12 .. 12
\* semitones: values of [1/2, 2]
RingShifts == {Rat(1, 2), Rat(33, 64), Rat(5, 8), Rat(3, 4), ROne,
               Rat(5, 4), Rat(3, 2), Rat(63, 32), RInt(2)}

\* the FFT-size callback: 2 ^ (value + 1)
FftSizeCallbackSmall(value) == 2 ^ (value + 1)

\* the FFT-size callback: 1 << ((int) value + 5)
FftSizeCallback(value) == 2 ^ (value + 5)

\* the hop-size callback: 1 << ((int) value + 1)
HopSizeCallback(value) == 2 ^ (value + 1)

\* the output ring sized for the ratio of paramShift.maxValue
RingLengthForMaxValue(processor, fftSize) ==
    IF processor = processorPitchShift
    THEN RFloor(RDiv(RInt(fftSize), PitchShiftOf(12)))
    ELSE fftSize

\* outputBufferLength: fftSize in STFT::updateFftSize; in
\* PitchShiftAudioProcessor::updateFftSize floorf (fftSize / maxRatio) with
\* maxRatio = powf (2, paramShift.minValue / 12)
RingLength(processor, fftSize) ==
    IF processor = processorPitchShift
    THEN RFloor(RDiv(RInt(fftSize), PitchShiftOf(-12)))
    ELSE fftSize

\* updateFftSize, then updateHopSize, with the targets of the two parameters
RingUpdated(p) ==
    LET fftSize == p.paramFftSize
        outputBufferLength == RingLength(p.processor, fftSize)
        overlap == p.paramHopSize
        hopSize == IF overlap # 0 THEN fftSize \div overlap ELSE p.hopSize
    IN  [p EXCEPT !.fftSize = fftSize,
                  !.outputBufferLength = outputBufferLength,
                  !.overlap = overlap,
                  !.hopSize = hopSize,
                  !.outputBufferWritePosition =
                      IF overlap # 0 THEN hopSize % outputBufferLength ELSE 0,
                  !.frame = <<>>]

\* the ring slot the overlap-add loop is at in pass `index': the loop starts
\* at the write position and steps by one, back to 0 at outputBufferLength
OutputBufferIndex(p, index) ==
    (p.outputBufferWritePosition + index) % p.outputBufferLength

\* one frame of PitchShiftAudioProcessor::processBlock: ratio,
\* resampledLength, the overlap-add loop, the write position
RingFramed(p, shift) ==
    LET ratio == PitchRatio(shift, p.hopSize)
        resampledLength == ResampledLength(p.fftSize, ratio)
        advanced == p.outputBufferWritePosition + p.hopSize
    IN  [p EXCEPT
            !.outputBufferWritePosition =
                IF advanced >= p.outputBufferLength THEN 0 ELSE advanced,
            !.frame = <<[shift |-> shift, ratio |-> ratio,
                         resampledLength |-> resampledLength,
                         writePosition |-> p.outputBufferWritePosition,
                         slots |-> Cardinality({OutputBufferIndex(p, index) :
                                     index \in 0 .. resampledLength - 1})]>>]

RingOthers ==
    UNCHANGED <<stft, chorus, vibrato, pingpong, panning, line, param, filt, wah>>

\* the FFT-size callback
RingFftSizeChanged ==
    /\ RingOthers
    /\ \E value \in 0 .. fftSize8192 :
          /\ FftSizeCallback(value) # plug.paramFftSize
          /\ plug' = RingUpdated([plug EXCEPT !.paramFftSize = FftSizeCallback(value),
                                              !.last = "paramFftSize"])

\* the hop-size callback
RingHopSizeChanged ==
    /\ RingOthers
    /\ \E value \in 0 .. hopSize8 :
          /\ HopSizeCallback(value) # plug.paramHopSize
          /\ plug' = RingUpdated([plug EXCEPT !.paramHopSize = HopSizeCallback(value),
                                              !.last = "paramHopSize"])

\* a frame of Pitch Shift with any shift of the range
RingFrame ==
    /\ RingOthers
    /\ plug.processor = processorPitchShift
    /\ \E shift \in RingShifts :
          plug' = [RingFramed(plug, shift) EXCEPT !.last = "frame"]

\* the processor after its constructor: FFT size 512, hop size 8
RingInit ==
    /\ stft = 0 /\ chorus = 0 /\ vibrato = 0 /\ pingpong = 0 /\ panning = 0
    /\ line = 0 /\ param = 0 /\ filt = 0 /\ wah = 0
    /\ plug \in {RingUpdated([processor |-> processor,
                              paramFftSize |-> FftSizeCallback(fftSize512),
                              paramHopSize |-> HopSizeCallback(hopSize8),
                              fftSize |-> 0, overlap |-> 0, hopSize |-> 0,
                              outputBufferLength |-> 0,
                              outputBufferWritePosition |-> 0,
                              frame |-> <<>>, last |-> "constructor"]) :
                    processor \in RingProcessors}

RingNext == RingFftSizeChanged \/ RingHopSizeChanged \/ RingFrame

SpecRing == RingInit /\ [][RingNext]_vars

\* C25: for every shift of the range, every hop size and every FFT size the
\* quantised ratio gives resampledLength <= outputBufferLength, so the
\* overlap-add of a frame touches resampledLength different ring slots (no
\* slot twice), and the write position moves on by hopSize per frame,
\* modulo the ring length.
C25_FrameFitsRing ==
    \A k \in DOMAIN plug.frame :
        LET f == plug.frame[k]
        IN  /\ f.ratio = PitchRatio(f.shift, plug.hopSize)
            /\ f.resampledLength = RFloor(RDiv(RInt(plug.fftSize), f.ratio))
            /\ f.resampledLength <= plug.outputBufferLength
            /\ f.slots = f.resampledLength
            /\ plug.outputBufferWritePosition =
                   (f.writePosition + plug.hopSize) % plug.outputBufferLength

\* a frame at the lowest shift has filled the whole ring of the largest FFT
\* size, each slot once, from a write position other than 0
C25_Witness ==
    /\ plug.frame # <<>>
    /\ plug.fftSize = FftSizeCallback(fftSize8192)
    /\ plug.frame[1].shift = Rat(1, 2)
    /\ plug.frame[1].writePosition > 0
    /\ plug.frame[1].resampledLength = plug.outputBufferLength
    /\ plug.frame[1].slots = plug.outputBufferLength

\* the powers of two from 2 ^ lo to 2 ^ hi
PowersOfTwo(lo, hi) == {2 ^ n : n \in lo .. hi}

\* C28: the callbacks give fftSize = 2 ^ (index + 5), one of 32 .. 8192, and
\* overlap = 2 ^ (index + 1), one of 2, 4, 8; in every configuration
\* reached through parameter changes hopSize = fftSize / overlap is exact,
\* at least 4, and divides fftSize and the length of the output ring.
C28_PowerOfTwoSizes ==
    /\ plug.fftSize \in PowersOfTwo(5, 13)
    /\ plug.fftSize \in 32 .. 8192
    /\ plug.overlap \in {2, 4, 8}
    /\ plug.hopSize * plug.overlap = plug.fftSize
    /\ plug.hopSize >= 4
    /\ plug.fftSize % plug.hopSize = 0
    /\ plug.outputBufferLength % plug.hopSize = 0

\* Pitch Shift has been brought to the smallest hop size by the two
\* callbacks: FFT size 32, overlap 8, hop size 4, ring length 64
C28_Witness ==
    /\ plug.processor = processorPitchShift
    /\ plug.last = "paramHopSize"
    /\ plug.fftSize = 32 /\ plug.overlap = 8 /\ plug.hopSize = 4
    /\ plug.outputBufferLength = 64

-----------------------------------------------------------------------------
(* Compressor-Expander.  Levels are kept in units of 1e-8 (the resolution  *)
(* of a float near 1), decibels in whole numbers and the control gain as   *)
(* its exponent: control = 10 ^ exponent.                                  *)

\* samples processed and blocks bypassed after prepareToPlay
DynMaxSamples == 3
DynMaxBypassed == 1

\* the input samples, and the parameter values
DynInputs == {RZero, ROne}
\* paramThreshold (-60 .. 0 dB), paramRatio (1 .. 100), paramMakeupGain
\* (-12 .. 12 dB)
DynThresholds == {RInt(-60), RInt(-24)}
DynRatios == {ROne, RInt(100)}
DynMakeupGains == {RInt(12)}
\* paramAttack and paramRelease in units of inverseSampleRate / ln 2: the
\* coefficients are 1/2 and 1/4
DynAttack == ROne
DynRelease == Rat(1, 2)

\* powf (x, 2.0f) of a sample, in units of 1e-8
InputSquared(x) ==
    LET amplitude == RFloor(RMul(RAbs(x), RInt(10000)))
    IN  amplitude * amplitude

\* averageFactor * inputLevel + (1 - averageFactor) * inputSquared with
\* averageFactor = 0.9999, in units of 1e-8
AveragedLevel(inputLevel, inputSquared) ==
    inputLevel - (inputLevel \div 10000) + (inputSquared \div 10000)

\* lines 114-119: the expander averages the squared input, the compressor
\* takes it as it is
DetectedLevel(expander, inputLevel, inputSquared) ==
    IF expander THEN AveragedLevel(inputLevel, inputSquared) ELSE inputSquared

\* the largest k with 10 ^ k <= level, for level >= 1
RECURSIVE Decade(_)
Decade(level) == IF level < 10 THEN 0 ELSE 1 + Decade(level \div 10)

\* 10 * log10f (inputLevel) in whole decibels, for a level above 1e-6:
\* exact on the decades, linear in between
TenLog10(level) ==
    LET k == Decade(level)
    IN  10 * (k - 8) + ((level - 10 ^ k) \div (9 * 10 ^ (k - 1)))

\* xg (line 120)
LevelInDecibels(inputLevel) ==
    IF inputLevel <= 100 THEN RInt(-60) ELSE RInt(TenLog10(inputLevel))

\* a gain computer that lets the expander apply its ratio above the
\* threshold
GainComputerAbove(expander, xg, T, R) ==
    IF expander
    THEN RAdd(T, RMul(RSub(xg, T), R))
    ELSE IF RLt(xg, T) THEN xg ELSE RAdd(T, RDiv(RSub(xg, T), R))

\* yg (lines 124-127 and 139-142)
GainComputer(expander, xg, T, R) ==
    IF expander
    THEN IF RLt(T, xg) THEN xg ELSE RAdd(T, RMul(RSub(xg, T), R))
    ELSE IF RLt(xg, T) THEN xg ELSE RAdd(T, RDiv(RSub(xg, T), R))

\* yl (lines 131-134 and 146-149)
LevelDetector(expander, xl, ylPrev, alphaA, alphaR) ==
    LET attack == RAdd(RMul(alphaA, ylPrev), RMul(RSub(ROne, alphaA), xl))
        release == RAdd(RMul(alphaR, ylPrev), RMul(RSub(ROne, alphaR), xl))
    IN  IF expander
        THEN IF RLt(xl, ylPrev) THEN attack ELSE release
        ELSE IF RLt(ylPrev, xl) THEN attack ELSE release

\* the value getNextValue() returned
Returned(params, name) == params[name].smoothed.returned[1]

\* mixedDownInput: every channel added with gain 1 / numInputChannels
MixedDown(block, sample) ==
    LET numInputChannels == Cardinality(DOMAIN block)
    IN  RSum([ch \in DOMAIN block |->
                 RMul(block[ch][sample], Rat(1, numInputChannels))],
             0, numInputChannels - 1)

\* one pass of the sample loop (lines 105-158)
DynSample(c, block, sample) ==
    LET params == AdvancedAll(c.params, CompressorSmoothed)
        T == Returned(params, "paramThreshold")
        R == Returned(params, "paramRatio")
        alphaA == CalculateAttackOrRelease(Returned(params, "paramAttack"))
        alphaR == CalculateAttackOrRelease(Returned(params, "paramRelease"))
        makeupGain == Returned(params, "paramMakeupGain")
        inputLevel == DetectedLevel(c.expander, c.inputLevel,
                                    InputSquared(MixedDown(block, sample)))
        xg == LevelInDecibels(inputLevel)
        yg == GainComputer(c.expander, xg, T, R)
        xl == RSub(xg, yg)
        yl == LevelDetector(c.expander, xl, c.ylPrev, alphaA, alphaR)
        control == RMul(RSub(makeupGain, yl), Rat(1, 20))
    IN  [c EXCEPT !.params = params,
                  !.inputLevel = inputLevel,
                  !.ylPrev = yl,
                  !.samples = @ + 1,
                  !.buffer = [ch \in DOMAIN @ |->
                                 Append(@[ch], [in |-> block[ch][sample],
                                                control |-> control])],
                  !.steps = Append(@, [expander |-> c.expander, T |-> T, R |-> R,
                                       alphaA |-> alphaA, alphaR |-> alphaR,
                                       makeupGain |-> makeupGain,
                                       xg |-> xg, yg |-> yg, xl |-> xl,
                                       ylPrev |-> c.ylPrev, yl |-> yl,
                                       control |-> control])]

RECURSIVE DynSamples(_, _, _, _)
DynSamples(c, block, sample, numSamples) ==
    IF sample > numSamples THEN c
    ELSE Having(DynSample(c, block, sample),
                LAMBDA r : DynSamples(r, block, sample + 1, numSamples))

\* the buffer as the host hands it over: every sample with control gain
\* 10 ^ 0
Untouched(block) ==
    [ch \in DOMAIN block |->
        [s \in DOMAIN block[ch] |-> [in |-> block[ch][s], control |-> RZero]]]

\* a processBlock that runs the sample loop whatever paramBypass is
DynProcessedAnyway(c, block, numSamples) ==
    DynSamples([c EXCEPT !.bypassed = c.bypass,
                         !.before = [inputLevel |-> c.inputLevel,
                                     ylPrev |-> c.ylPrev, params |-> c.params],
                         !.input = Untouched(block),
                         !.buffer = [ch \in DOMAIN block |-> <<>>],
                         !.steps = <<>>],
               block, 1, numSamples)

\* CompressorExpanderAudioProcessor::processBlock: with paramBypass set it
\* returns at once
DynProcessed(c, block, numSamples) ==
    IF c.bypass
    THEN [c EXCEPT !.bypassed = TRUE,
                   !.bypassedBlocks = @ + 1,
                   !.before = [inputLevel |-> c.inputLevel,
                               ylPrev |-> c.ylPrev, params |-> c.params],
                   !.input = Untouched(block),
                   !.buffer = Untouched(block),
                   !.steps = <<>>]
    ELSE DynSamples([c EXCEPT !.bypassed = FALSE,
                              !.before = [inputLevel |-> c.inputLevel,
                                          ylPrev |-> c.ylPrev,
                                          params |-> c.params],
                              !.input = Untouched(block),
                              !.buffer = [ch \in DOMAIN block |-> <<>>],
                              !.steps = <<>>],
                    block, 1, numSamples)

DynParams(threshold, ratio, makeupGain) ==
    [name \in CompressorSmoothed |->
        [smoothed |-> ParamConstructed(callbackNone,
             CASE name = "paramThreshold" -> threshold
               [] name = "paramRatio" -> ratio
               [] name = "paramAttack" -> DynAttack
               [] name = "paramRelease" -> DynRelease
               [] name = "paramMakeupGain" -> makeupGain),
         calls |-> 0]]

DynOthers ==
    UNCHANGED <<stft, plug, chorus, vibrato, pingpong, panning, line, param, filt>>

\* CompressorExpanderAudioProcessor::prepareToPlay
DynPrepareToPlay ==
    /\ DynOthers
    /\ \E sampleRate \in ParamSampleRates, channels \in ChannelCounts :
          wah' = [wah EXCEPT
                     !.prepared = TRUE, !.numChannels = channels,
                     !.inputLevel = 0, !.ylPrev = RZero,
                     !.samples = 0, !.bypassedBlocks = 0,
                     !.params = [name \in DOMAIN @ |->
                         [smoothed |-> SmoothedReset(@[name].smoothed,
                                                     sampleRate, smoothTime),
                          calls |-> 0]],
                     !.bypassed = FALSE,
                     !.before = <<>>, !.input = <<>>, !.buffer = <<>>,
                     !.steps = <<>>]

\* parameterChanged of paramMode, paramBypass, paramThreshold or paramRatio
DynParameterChanged ==
    /\ DynOthers
    /\ wah.changes < MaxChanges
    /\ \/ wah' = [wah EXCEPT !.expander = ~@, !.changes = @ + 1,
                             !.bypassed = FALSE]
       \/ wah' = [wah EXCEPT !.bypass = ~@, !.changes = @ + 1,
                             !.bypassed = FALSE]
       \/ \E name \in {"paramThreshold", "paramRatio"},
             newValue \in DynThresholds \cup DynRatios :
             /\ newValue \in (IF name = "paramRatio" THEN DynRatios
                              ELSE DynThresholds)
             /\ newValue # wah.params[name].smoothed.target
             /\ wah' = [wah EXCEPT
                           !.changes = @ + 1, !.bypassed = FALSE,
                           !.params[name].smoothed = UpdateValue(@, newValue)]

\* CompressorExpanderAudioProcessor::processBlock
DynProcessBlock ==
    /\ DynOthers
    /\ wah.prepared
    /\ wah.bypass => wah.bypassedBlocks < DynMaxBypassed
    /\ \E numSamples \in 0 .. MaxBlock :
          /\ wah.samples + numSamples <= DynMaxSamples
          /\ \E block \in [0 .. wah.numChannels - 1 ->
                              [1 .. numSamples -> DynInputs]] :
                wah' = DynProcessed(wah, block, numSamples)

\* the processor after its constructor: paramMode is Expander, paramBypass
\* off
DynInit ==
    /\ stft = 0 /\ plug = 0 /\ chorus = 0 /\ vibrato = 0 /\ pingpong = 0
    /\ panning = 0 /\ line = 0 /\ param = 0 /\ filt = 0
    /\ \E threshold \in DynThresholds, ratio \in DynRatios,
          makeupGain \in DynMakeupGains :
          wah = [prepared |-> FALSE, numChannels |-> 0, expander |-> TRUE,
                 bypass |-> FALSE, inputLevel |-> 0, ylPrev |-> RZero,
                 samples |-> 0, bypassedBlocks |-> 0, changes |-> 0,
                 params |-> DynParams(threshold, ratio, makeupGain),
                 bypassed |-> FALSE, before |-> <<>>, input |-> <<>>,
                 buffer |-> <<>>, steps |-> <<>>]

DynNext == DynPrepareToPlay \/ DynParameterChanged \/ DynProcessBlock

SpecDyn == DynInit /\ [][DynNext]_vars

\* C26: with a ratio of at least 1, ylPrev = 0 after prepareToPlay and
\* attack and release coefficients in [0, 1], every sample step of either
\* mode has xl = xg - yg >= 0 and yl >= 0, so the control gain is at most
\* the make-up gain 10 ^ (makeupGain / 20).
C26_GainReductionNotNegative ==
    /\ wah.prepared => RLe(RZero, wah.ylPrev)
    /\ \A k \in DOMAIN wah.steps :
          LET s == wah.steps[k]
          IN  /\ RLe(ROne, s.R)
              /\ RLe(RZero, s.alphaA) /\ RLe(s.alphaA, ROne)
              /\ RLe(RZero, s.alphaR) /\ RLe(s.alphaR, ROne)
              /\ s.xl = RSub(s.xg, s.yg)
              /\ RLe(RZero, s.xl)
              /\ RLe(RZero, s.yl)
              /\ RLe(s.control, RMul(s.makeupGain, Rat(1, 20)))

\* a compressor step above the threshold has reduced the gain, starting
\* from a level detector that an earlier block had left above 0: xl > 0,
\* yl > 0 and a control gain below the make-up gain
C26_Witness ==
    /\ wah.before # <<>> /\ RLt(RZero, wah.before.ylPrev)
    /\ \E k \in DOMAIN wah.steps :
          LET s == wah.steps[k]
          IN  /\ ~s.expander /\ RLt(s.T, s.xg) /\ RLt(ROne, s.R)
              /\ RLt(RZero, s.xl) /\ RLt(RZero, s.yl)
              /\ RLt(s.control, RMul(s.makeupGain, Rat(1, 20)))

\* C29: a processBlock call that finds paramBypass set leaves the audio
\* buffer, inputLevel, ylPrev and every smoothed parameter (its current
\* value, and the count of its getNextValue() calls) as they were.
C29_BypassChangesNothing ==
    wah.bypassed =>
        /\ wah.buffer = wah.input
        /\ wah.inputLevel = wah.before.inputLevel
        /\ wah.ylPrev = wah.before.ylPrev
        /\ wah.params = wah.before.params
        /\ wah.steps = <<>>

\* a block with a non-zero sample has been bypassed while the level
\* detector was above 0 and the make-up gain was not 0 dB
C29_Witness ==
    /\ wah.bypassed
    /\ \E ch \in DOMAIN wah.buffer : \E s \in DOMAIN wah.buffer[ch] :
          wah.buffer[ch][s]["in"] # RZero
    /\ RLt(RZero, wah.ylPrev)
    /\ wah.inputLevel > 0
    /\ wah.params["paramMakeupGain"].smoothed.target # RZero
    /\ wah.params["paramMakeupGain"].calls > 0

-----------------------------------------------------------------------------
(* The envelopes of Wah-Wah after prepareToPlay.                           *)

\* C27: after every prepareToPlay call, a second or later one included, the
\* array holds exactly one envelope per input channel and the envelope that
\* processBlock uses for each channel is 0.
C27_EnvelopesAfterPrepare ==
    wah.last = "prepareToPlay" =>
        /\ Cardinality(DOMAIN wah.envelopes) = wah.numChannels
        /\ \A channel \in 0 .. wah.numChannels - 1 :
              wah.envelopes[channel] = RZero

\* after a second prepareToPlay the array holds more envelopes than there
\* are channels, and channel 0 still has the envelope the earlier blocks
\* left
C27_Witness ==
    /\ wah.last = "prepareToPlay" /\ wah.prepares = 2
    /\ Cardinality(DOMAIN wah.envelopes) > wah.numChannels
    /\ wah.envelopes[0] # RZero
    /\ Len(wah.log[0]) > 0
    /\ wah.envelopes[0] = wah.log[0][Len(wah.log[0])].envelope

=============================================================================
